---- MODULE Spec2Model ----
(***************************************************************************)
(* Klimerko 7.0 acquisition core: PMS7003 frame decoder (PMS::loop,        *)
(* PMS::readUntil), alarm evaluator (alarms.h) and sensor health           *)
(* bookkeeping (sensors.h), modelled as one state machine with one         *)
(* specification per component.                                            *)
(***************************************************************************)
EXTENDS Integers, Sequences, FiniteSets, TLC

(***************************************************************************)
(* Bounds of the model (not program constants).                            *)
(***************************************************************************)
\* largest clock value (ms) explored by the decoder specification
MaxTimeDec == 202
\* largest clock value (ms) explored by the readUntil specification
MaxTimeLive == 500
\* largest clock value (ms) explored by the read-attempt specification
MaxTimeRead == 7000
\* number of read attempts explored by the read-attempt specification
MaxAttempts == 2
\* number of bytes the serial receive buffer may hold before the decoder polls
RxCap == 1
\* number of frame kinds the decoder streams are built from
NumKinds == 2
\* largest clock value (ms) explored by the alarm specification (71 min)
MaxTimeAlarm == 4260000
\* number of alarm evaluations explored by the alarm specification
MaxEvals == 3
\* the sensor specifications stop the clock after this many milliseconds
MaxTimeSens == 190000
\* the calibration specification stops the clock after this many milliseconds
MaxTimeCal == 65000
\* the zero-data specification stops the clock after this many milliseconds
MaxTimeZero == 215000
\* the publish specification stops the clock after this many milliseconds
MaxTimePub == 340000
\* clock bound of the scheduler specification (milliseconds)
MaxTimeSched == 130000
\* interval commands in a run of the scheduler specification
MaxIntervalCmds == 1
\* clock bound of the interval-command specification (milliseconds)
MaxTimeInterval == 37000
\* the calibration specification allows this many configuration commands
MaxCmds == 2
\* the filter specification pushes at most this many samples
MaxPushes == 12
\* calls of mqttCallback in the command specification
MaxMsgs == 2
\* restarts of the device in the start-up specification
MaxBoots == 2
\* clock bound of the command specification (ms)
MaxTimeMqtt == 37000
\* reconnect attempts of the WiFi specification (a uint8_t counts the failures)
MaxWifiAttempts == 258
\* the WiFi link drops only before this many reconnect attempts
MaxDropAttempts == 2
\* clock bound of the WiFi specification (ms)
MaxTimeWifi == 78000000

(***************************************************************************)
(* Program constants.                                                      *)
(***************************************************************************)
FRAME_TIMEOUT_MS == 100
SINGLE_RESPONSE_TIME == 1000
ALARM_PM25_THRESHOLD == 35
ALARM_PM10_THRESHOLD == 45
ALARM_COOLDOWN_MS == 3600000
STATUS_WAIT == 0
STATUS_OK == 1
SENSOR_RETRIES_OFFLINE == 3
FAN_STUCK_THRESHOLD == 5
ZERO_DATA_THRESHOLD == 5
SENSOR_AVERAGE_SAMPLES == 10
PMS_WAKE_BEFORE_SEC == 30
\* plausibility bounds of the environmental reading, in hundredths
TEMP_MIN_VALID == -4000
TEMP_MAX_VALID == 8500
HUM_MIN_VALID == 0
HUM_MAX_VALID == 10000
\* calibration factors and temperature offsets are kept in hundredths
MIN_CAL_FACTOR == 10
MAX_CAL_FACTOR == 1000
DEFAULT_TEMP_OFFSET == -200
\* WiFi reconnect backoff (ms) and the payload limit of mqttCallback (bytes)
WIFI_RECONNECT_BASE_INTERVAL == 10000
WIFI_RECONNECT_MAX_INTERVAL == 300000
MQTT_CALLBACK_BUFFER_SIZE == 1023
\* calculateHeatIndex: temperatures in hundredths of a degree; the Rothfusz
\* coefficients of the constant and linear-in-R terms in units of 1e-7
\* (c1, c2, c5) and 1e-8 (c3, c4, c7), of the quadratic term in 1e-9
THRESHOLD == 2670
TRANSITION_START == 2000
c1 == -87846948
c2 == 16113941
c3 == 233854884
c4 == -14611605
c5 == -123081
c6 == -16424828
c7 == 221173
c8 == 725460
c9 == -3582

\* unsigned 32-bit subtraction, as in millis() - t.  Clock values of the
\* model stay below 2^31; a difference that wraps (a < b) is 2^32 - (b - a),
\* which is larger than every duration it is compared with, and is given
\* as the largest representable value.
Sub32(a, b) == IF a >= b THEN a - b ELSE 2147483647

VARIABLES
  now,                  \* millis()
  wire, pos, avail,     \* sensor byte stream, bytes consumed, bytes buffered
  _index, _frameLen, _checksum, _calculatedChecksum, _payload,
  _lastByteTime, _status,
  pmsData,              \* the caller's PMS::DATA record (_data points at it)
  ruActive, start, timeout,   \* readUntil activation and its locals
  okLog,                \* history: every successful readUntil return
  runStart,             \* history: stream offset at which the decoder, in the
                        \*   start-of-frame state, began the current frame
  runGap,               \* history: a byte of that frame came > 100 ms late
  lateByte,             \* history: some byte of the stream came > 100 ms late
  lastConsume           \* history: clock value of the last consumed byte

decVars == <<wire, pos, avail, _index, _frameLen, _checksum,
             _calculatedChecksum, _payload, _lastByteTime, _status, pmsData,
             ruActive, start, timeout, okLog, runStart, runGap, lateByte, lastConsume>>

VARIABLES
  alarmEnabled, alarmTriggered,   \* globals of the sketch
  alarmState,                     \* AlarmState
  sensorData,                     \* SensorData
  alarmEvents,                    \* history: alarm payloads handed to publishCallback
  evals                           \* history: number of checkAlarms calls

alarmVars == <<alarmEnabled, alarmTriggered, alarmState, alarmEvents, evals>>

VARIABLES
  pm1Avg, pm25Avg, pm10Avg,       \* movingAvg filters of the PM channels
  tempAvg, humAvg, presAvg,       \* movingAvg filters of the BME channels
  calibration,                    \* Calibration (factors and offsets x100)
  _mode,                          \* PMS::_mode
  pmsStatus, bmeStatus,           \* SensorStatus of each sensor
  pmsSensorOnline, bmeSensorOnline,
  pmsSensorRetry, bmeSensorRetry,
  pmsNoSleep, pmsWoken,
  prevPm1, prevPm25, prevPm10,    \* PM values seen by the last checkFanStatus
  stuckCounter, zeroCounter,
  sensorStatusText,
  sensorReadTime,                 \* millis() of the last read cycle
  dataPublishInterval,            \* minutes
  pmsTx,                          \* commands sent to the sensor by the last handler
  lastPower,                      \* history: last power command sent to the sensor
  lastCycle,                      \* history: what the last read cycle did
  cycles,                         \* history: number of read cycles so far
  pmsFailRun, bmeFailRun,         \* history: failed reads since the last good one
  sameRun                         \* history: read cycles in a row with equal PM values

filterVars == <<pm1Avg, pm25Avg, pm10Avg, tempAvg, humAvg, presAvg>>

sensVars == <<filterVars, calibration, _mode, pmsStatus, bmeStatus,
              pmsSensorOnline, bmeSensorOnline, pmsSensorRetry, bmeSensorRetry,
              pmsNoSleep, pmsWoken, prevPm1, prevPm25, prevPm10, stuckCounter,
              zeroCounter, sensorStatusText, sensorReadTime,
              dataPublishInterval, pmsTx, lastPower, lastCycle, cycles,
              pmsFailRun,
              bmeFailRun, sameRun>>

\* sensVars without the filters and the calibration
healthVars == <<_mode, pmsStatus, bmeStatus, pmsSensorOnline, bmeSensorOnline,
                pmsSensorRetry, bmeSensorRetry, pmsNoSleep, pmsWoken, prevPm1,
                prevPm25, prevPm10, stuckCounter, zeroCounter,
                sensorStatusText, sensorReadTime, dataPublishInterval, pmsTx,
                lastPower,
                lastCycle, cycles, pmsFailRun, bmeFailRun, sameRun>>

VARIABLES
  klimerkoSettings,               \* Settings struct in RAM
  eeprom,                         \* Settings record stored in the EEPROM
  bmeTemperatureOffset,           \* configured temperature offset
  offsetOfSample,                 \* history: tempOffset each sample of the
                                  \* tempAvg / humAvg window was taken under
  cmds                            \* history: configuration commands so far

calVars == <<klimerkoSettings, eeprom, bmeTemperatureOffset, offsetOfSample,
             cmds>>

VARIABLES
  fWin,                           \* a movingAvg filter on its own
  fPushed,                        \* history: every sample pushed to it
  fOut                            \* value returned by the last reading()

filtVars == <<fWin, fPushed, fOut>>

VARIABLES
  attPhase,                       \* position of readPMSSensor: "idle" or "drain"
  attBase,                        \* history: stream offset of the first byte
                                  \* that arrives after the attempt began
  attDrained,                     \* history: bytes discarded by the drain loops
  attReq                          \* history: read requests written to the sensor

attVars == <<attPhase, attBase, attDrained, attReq>>

VARIABLES
  zeroRun,                        \* history: consecutive read cycles, up to the
                                  \* last one, whose three PM values were all 0
  fanWrites                       \* history: runs of checkFanStatus since the
                                  \* last read cycle began

histVars == <<zeroRun, fanWrites>>

VARIABLES
  dataPublishTime,                \* time of the last publication
  publishes,                      \* history: publications so far
  lastPublished                   \* history: sensor status last published

pubVars == <<dataPublishTime, publishes, lastPublished>>

VARIABLES
  epaIn,                          \* arguments of applyEPAHumidityCorrection
  epaOut,                         \* its last call: arguments, divisor, result
  hiIn,                           \* arguments of calculateHeatIndex
  hiOut                           \* its last call: arguments and result

utilVars == <<epaIn, epaOut, hiIn, hiOut>>

VARIABLES
  intervalArg,                    \* history: argument of the last changeInterval
  pendingUpdateUrl,               \* firmware URL waiting for loop() ("": none)
  updates,                        \* history: firmware updates attempted
  boots                           \* history: restarts so far

cmdVars == <<intervalArg, pendingUpdateUrl, updates, boots>>

VARIABLES
  msgs,                           \* history: calls of mqttCallback so far
  msgLen,                         \* history: p_length of the last call
  jsonTop                         \* history: highest index of json[] written by
                                  \* the last call that copied its payload

mqttVars == <<msgs, msgLen, jsonTop>>

VARIABLES
  wlStatus,                       \* WiFi.status()
  wifiState,                      \* WifiState
  wifiAttempts,                   \* history: calls of connectWiFi after setup
  failRun                         \* history: failed calls of connectWiFi since
                                  \* the last successful one

wifiVars == <<wlStatus, wifiState, wifiAttempts, failRun>>

netVars == <<cmdVars, mqttVars, wifiVars>>

miscVars == <<attVars, histVars, pubVars, utilVars, netVars>>

extVars == <<calVars, filtVars, miscVars>>

vars == <<now, decVars, alarmVars, sensorData, sensVars, extVars>>

(***************************************************************************)
(* Frames of the particle sensor.                                          *)
(***************************************************************************)
RECURSIVE SumSeq(_)
SumSeq(s) == IF s = <<>> THEN 0 ELSE Head(s) + SumSeq(Tail(s))

\* Arduino makeWord(h, l)
makeWord(h, l) == h * 256 + l

\* the 13 payload words of the frame kinds fed to the decoder
FrameWord(k, i) == IF k = 1 THEN i ELSE (i * 256 + 127 + i)

\* bytes 1..30 of a frame: sync, length 28, 13 big-endian words
FrameBody(k) ==
  <<66, 77, 0, 28>> \o
  [j \in 1..26 |-> IF j % 2 = 1 THEN FrameWord(k, (j + 1) \div 2) \div 256
                                ELSE FrameWord(k, j \div 2) % 256]

\* a complete frame: body followed by the 16-bit sum of the body
ValidFrame(k) ==
  LET b == FrameBody(k) IN b \o <<SumSeq(b) \div 256, SumSeq(b) % 256>>

\* frame f with the byte at position p (1-based) replaced by another value
Corrupt(f, p) == [f EXCEPT ![p] = (f[p] + 1) % 256]

\* a 32-byte sequence is a well-formed frame
IsValidFrame(f) ==
  /\ Len(f) = 32
  /\ f[1] = 66 /\ f[2] = 77 /\ makeWord(f[3], f[4]) = 28
  /\ SumSeq(SubSeq(f, 1, 30)) = makeWord(f[31], f[32])

\* the DATA record a frame carries
FieldsOf(f) ==
  [PM_SP_UG_1_0  |-> makeWord(f[5], f[6]),
   PM_SP_UG_2_5  |-> makeWord(f[7], f[8]),
   PM_SP_UG_10_0 |-> makeWord(f[9], f[10]),
   PM_AE_UG_1_0  |-> makeWord(f[11], f[12]),
   PM_AE_UG_2_5  |-> makeWord(f[13], f[14]),
   PM_AE_UG_10_0 |-> makeWord(f[15], f[16]),
   PM_RAW_0_3    |-> makeWord(f[17], f[18]),
   PM_RAW_0_5    |-> makeWord(f[19], f[20]),
   PM_RAW_1_0    |-> makeWord(f[21], f[22]),
   PM_RAW_2_5    |-> makeWord(f[23], f[24]),
   PM_RAW_5_0    |-> makeWord(f[25], f[26]),
   PM_RAW_10_0   |-> makeWord(f[27], f[28])]

ZeroData ==
  [PM_SP_UG_1_0 |-> 0, PM_SP_UG_2_5 |-> 0, PM_SP_UG_10_0 |-> 0,
   PM_AE_UG_1_0 |-> 0, PM_AE_UG_2_5 |-> 0, PM_AE_UG_10_0 |-> 0,
   PM_RAW_0_3 |-> 0, PM_RAW_0_5 |-> 0, PM_RAW_1_0 |-> 0,
   PM_RAW_2_5 |-> 0, PM_RAW_5_0 |-> 0, PM_RAW_10_0 |-> 0]

(***************************************************************************)
(* PMS frame decoder.                                                      *)
(***************************************************************************)
\* the decoder object together with the record _data points at
PmsObj ==
  [_index |-> _index, _frameLen |-> _frameLen, _checksum |-> _checksum,
   _calculatedChecksum |-> _calculatedChecksum, _payload |-> _payload,
   _lastByteTime |-> _lastByteTime, _status |-> _status, data |-> pmsData]

\* variant: the partial frame is dropped already at a gap of FRAME_TIMEOUT_MS
FrameTimedOut_ge(d, t) ==
  d._index > 0 /\ Sub32(t, d._lastByteTime) >= FRAME_TIMEOUT_MS

\* the inter-byte timeout test at the top of PMS::loop
FrameTimedOut(d, t) ==
  d._index > 0 /\ Sub32(t, d._lastByteTime) > FRAME_TIMEOUT_MS

\* variant: only the low byte of the length is compared
LengthOk_low(len) == len % 256 = 28

\* the length check after the second length byte
LengthOk(len) == len = 28

\* variant: the frame is accepted without comparing the sums
ChecksumOk_unchecked(calculated, transmitted) == TRUE

\* the acceptance test on the last byte of a frame
ChecksumOk(calculated, transmitted) == calculated = transmitted

\* variant: the running sum is kept in 8 bits
AddChecksum_8bit(sum, ch) == (sum + ch) % 256

\* the running sum is a uint16_t
AddChecksum(sum, ch) == (sum + ch) % 65536

\* variant: the atmospheric fields are read from the standard words
MapData_sp(p) ==
  [PM_SP_UG_1_0  |-> makeWord(p[0], p[1]),
   PM_SP_UG_2_5  |-> makeWord(p[2], p[3]),
   PM_SP_UG_10_0 |-> makeWord(p[4], p[5]),
   PM_AE_UG_1_0  |-> makeWord(p[0], p[1]),
   PM_AE_UG_2_5  |-> makeWord(p[2], p[3]),
   PM_AE_UG_10_0 |-> makeWord(p[4], p[5]),
   PM_RAW_0_3    |-> makeWord(p[12], p[13]),
   PM_RAW_0_5    |-> makeWord(p[14], p[15]),
   PM_RAW_1_0    |-> makeWord(p[16], p[17]),
   PM_RAW_2_5    |-> makeWord(p[18], p[19]),
   PM_RAW_5_0    |-> makeWord(p[20], p[21]),
   PM_RAW_10_0   |-> makeWord(p[22], p[23])]

\* the field mapping done on acceptance (payload indices are 0-based)
MapData(p) ==
  [PM_SP_UG_1_0  |-> makeWord(p[0], p[1]),
   PM_SP_UG_2_5  |-> makeWord(p[2], p[3]),
   PM_SP_UG_10_0 |-> makeWord(p[4], p[5]),
   PM_AE_UG_1_0  |-> makeWord(p[6], p[7]),
   PM_AE_UG_2_5  |-> makeWord(p[8], p[9]),
   PM_AE_UG_10_0 |-> makeWord(p[10], p[11]),
   PM_RAW_0_3    |-> makeWord(p[12], p[13]),
   PM_RAW_0_5    |-> makeWord(p[14], p[15]),
   PM_RAW_1_0    |-> makeWord(p[16], p[17]),
   PM_RAW_2_5    |-> makeWord(p[18], p[19]),
   PM_RAW_5_0    |-> makeWord(p[20], p[21]),
   PM_RAW_10_0   |-> makeWord(p[22], p[23])]

\* the switch of PMS::loop on one received byte ch (after _lastByteTime is set)
LoopByte(d, ch) ==
  LET next(e) == [e EXCEPT !._index = (e._index + 1) % 256] IN
  CASE d._index = 0 ->
         IF ch # 66 THEN d
         ELSE next([d EXCEPT !._calculatedChecksum = ch])
    [] d._index = 1 ->
         IF ch # 77 THEN [d EXCEPT !._index = 0]
         ELSE next([d EXCEPT !._calculatedChecksum = AddChecksum(@, ch)])
    [] d._index = 2 ->
         next([d EXCEPT !._calculatedChecksum = AddChecksum(@, ch),
                        !._frameLen = (ch * 256) % 65536])
    [] d._index = 3 ->
         LET len == (d._frameLen \div 256) * 256 + ch
             e == [d EXCEPT !._frameLen = len,
                            !._calculatedChecksum = AddChecksum(@, ch)]
         IN IF ~LengthOk(len) THEN [e EXCEPT !._index = 0] ELSE next(e)
    [] OTHER ->
         IF d._index = d._frameLen + 2 + 1
         THEN LET cs == makeWord(d._payload[26], ch)
                  e == [d EXCEPT !._checksum = cs, !._index = 0]
              IN IF ChecksumOk(d._calculatedChecksum, cs)
                 THEN [e EXCEPT !._status = STATUS_OK,
                                !.data = MapData(d._payload)]
                 ELSE e
         ELSE LET e == IF d._index < d._frameLen + 2
                       THEN [d EXCEPT !._calculatedChecksum = AddChecksum(@, ch)]
                       ELSE d
                  f == IF d._index - 4 < 28
                       THEN [e EXCEPT !._payload[d._index - 4] = ch]
                       ELSE e
              IN next(f)

\* one call of PMS::loop at clock value t; hasByte is _stream->available()
PMSloop(d, hasByte, ch, t) ==
  LET d1 == IF FrameTimedOut(d, t) THEN [d EXCEPT !._index = 0] ELSE d
  IN IF hasByte THEN LoopByte([d1 EXCEPT !._lastByteTime = t], ch) ELSE d1

\* write a decoder value back to the variables
StorePms(d) ==
  /\ _index' = d._index
  /\ _frameLen' = d._frameLen
  /\ _checksum' = d._checksum
  /\ _calculatedChecksum' = d._calculatedChecksum
  /\ _payload' = d._payload
  /\ _lastByteTime' = d._lastByteTime
  /\ _status' = d._status
  /\ pmsData' = d.data

\* variant: the loop goes on while millis() - start <= timeout
StillWaiting_le(t, s, to) == Sub32(t, s) <= to

\* the loop condition of readUntil: keep polling while millis() - start < timeout
StillWaiting(t, s, to) == Sub32(t, s) < to

(***************************************************************************)
(* Byte-level actions.                                                     *)
(***************************************************************************)
\* the clock advances by d milliseconds
Tick(d, max) ==
  /\ now + d <= max
  /\ now' = now + d

\* the sensor puts its next byte into the serial receive buffer
Arrive ==
  /\ pos + avail < Len(wire)
  /\ avail < RxCap
  /\ avail' = avail + 1
  /\ UNCHANGED <<now, wire, pos, _index, _frameLen, _checksum,
                 _calculatedChecksum, _payload, _lastByteTime, _status,
                 pmsData, ruActive, start, timeout, okLog, runStart, runGap,
                 lateByte, lastConsume>>

\* PMS::readUntil, entry: _data = &data; _status = STATUS_WAIT; start = millis()
ReadUntilBegin(to) ==
  /\ ~ruActive
  /\ ruActive' = TRUE
  /\ _status' = STATUS_WAIT
  /\ start' = now
  /\ timeout' = to
  /\ UNCHANGED <<now, wire, pos, avail, _index, _frameLen, _checksum,
                 _calculatedChecksum, _payload, _lastByteTime, pmsData, okLog,
                 runStart, runGap, lateByte, lastConsume>>

\* the 32 bytes of the stream that follow offset q
FrameAt(q) == SubSeq(wire, q + 1, q + 32)

\* history: a well-formed frame began at runStart with the decoder in the
\* start-of-frame state (at rest there, or put there by the inter-byte
\* timeout in the step that took its first byte) and has so far been fed
\* without a late byte
FrameInProgress ==
  /\ runStart + 32 <= Len(wire)
  /\ IsValidFrame(FrameAt(runStart))
  /\ ~runGap
  /\ pos - runStart < 32

\* PMS::readUntil, one iteration of the do-while: loop(), break on STATUS_OK,
\* otherwise test the deadline; the call returns when the iteration ends it
ReadUntilPoll ==
  /\ ruActive
  /\ LET hasByte == avail > 0
         ch == IF hasByte THEN wire[pos + 1] ELSE 0
         d == PMSloop(PmsObj, hasByte, ch, now)
     IN /\ StorePms(d)
        /\ pos' = IF hasByte THEN pos + 1 ELSE pos
        /\ avail' = IF hasByte THEN avail - 1 ELSE avail
        /\ IF d._status = STATUS_OK
           THEN /\ ruActive' = FALSE
                /\ okLog' = Append(okLog, [at |-> pos', data |-> d.data])
           ELSE /\ ruActive' = StillWaiting(now, start, timeout)
                /\ okLog' = okLog
        /\ IF ~hasByte THEN UNCHANGED <<runStart, runGap>>
           ELSE IF ~FrameInProgress /\
                   (_index = 0 \/ FrameTimedOut(PmsObj, now))
           THEN runStart' = pos /\ runGap' = FALSE
           ELSE /\ runStart' = runStart
                /\ runGap' = (runGap \/ Sub32(now, lastConsume) > FRAME_TIMEOUT_MS)
        /\ lateByte' = (lateByte \/ (hasByte /\ pos > 0 /\
                                     Sub32(now, lastConsume) > FRAME_TIMEOUT_MS))
        /\ lastConsume' = IF hasByte THEN now ELSE lastConsume
  /\ UNCHANGED <<now, wire, start, timeout>>

\* the decoder after construction of the global PMS object
InitPms ==
  /\ _index = 0
  /\ _frameLen = 0
  /\ _checksum = 0
  /\ _calculatedChecksum = 0
  /\ _payload = [i \in 0..27 |-> 0]
  /\ _lastByteTime = 0
  /\ _status = STATUS_WAIT
  /\ pmsData = ZeroData
  /\ ruActive = FALSE
  /\ start = 0
  /\ timeout = 0
  /\ okLog = <<>>
  /\ runStart = 0
  /\ runGap = FALSE
  /\ lateByte = FALSE
  /\ lastConsume = 0

(***************************************************************************)
(* Alarm evaluator (alarms.h).                                             *)
(***************************************************************************)
\* the global sensorData before the first read
InitSensorData ==
  sensorData = [pm1 |-> 0, pm25 |-> 0, pm10 |-> 0,
                count_0_3 |-> 0, count_0_5 |-> 0, count_1_0 |-> 0,
                count_2_5 |-> 0, count_5_0 |-> 0, count_10_0 |-> 0,
                temperature |-> 0, humidity |-> 0, pressure |-> 0,
                pm1_corrected |-> 0, pm25_corrected |-> 0,
                pm10_corrected |-> 0]

\* initAlarms(), the last step of setup()
initAlarms ==
  /\ alarmState = [triggered |-> FALSE, lastTriggerTime |-> 0,
                   pm25Threshold |-> ALARM_PM25_THRESHOLD,
                   pm10Threshold |-> ALARM_PM10_THRESHOLD,
                   cooldownMs |-> ALARM_COOLDOWN_MS]
  /\ alarmEnabled = TRUE
  /\ alarmTriggered = FALSE
  /\ alarmEvents = <<>>
  /\ evals = 0

\* variant: a value equal to the threshold counts as a breach
Exceeds_ge(value, threshold) == value >= threshold

\* the threshold comparison of checkAlarms
Exceeds(value, threshold) == value > threshold

\* variant: the cooldown test is skipped
InCooldown_never(st, t) == FALSE

\* variant: the cooldown still holds when exactly cooldownMs have elapsed
InCooldown_le(st, t) ==
  st.triggered /\ Sub32(t, st.lastTriggerTime) <= st.cooldownMs

\* the cooldown test of checkAlarms
InCooldown(st, t) ==
  st.triggered /\ Sub32(t, st.lastTriggerTime) < st.cooldownMs

\* the reason string, as the list of its parts
AlarmReason(sd, st) ==
  (IF Exceeds(sd.pm25, st.pm25Threshold)
   THEN <<[what |-> "PM2.5 HIGH", value |-> sd.pm25]>> ELSE <<>>) \o
  (IF Exceeds(sd.pm10, st.pm10Threshold)
   THEN <<[what |-> "PM10 HIGH", value |-> sd.pm10]>> ELSE <<>>)

\* checkAlarms(publishCallback), called from mainSensorLoop
checkAlarms ==
  /\ evals < MaxEvals
  /\ evals' = evals + 1
  /\ IF ~alarmEnabled \/ InCooldown(alarmState, now)
     THEN UNCHANGED <<alarmState, alarmTriggered, alarmEvents>>
     ELSE LET shouldAlarm == \/ Exceeds(sensorData.pm25, alarmState.pm25Threshold)
                             \/ Exceeds(sensorData.pm10, alarmState.pm10Threshold)
          IN IF shouldAlarm
             THEN /\ alarmState' = [alarmState EXCEPT !.triggered = TRUE,
                                                      !.lastTriggerTime = now]
                  /\ alarmTriggered' = TRUE
                  /\ alarmEvents' =
                       Append(alarmEvents,
                              [time |-> now,
                               reason |-> AlarmReason(sensorData, alarmState)])
             ELSE IF alarmState.triggered
             THEN /\ alarmState' = [alarmState EXCEPT !.triggered = FALSE]
                  /\ alarmTriggered' = FALSE
                  /\ alarmEvents' = alarmEvents
             ELSE UNCHANGED <<alarmState, alarmTriggered, alarmEvents>>
  /\ UNCHANGED <<now, alarmEnabled, sensorData>>

\* variant: disabling clears the flag the dashboard reads only
setAlarmEnabled_flagOnly(enabled) ==
  /\ alarmEnabled' = enabled
  /\ IF ~enabled
     THEN alarmTriggered' = FALSE /\ UNCHANGED alarmState
     ELSE UNCHANGED <<alarmTriggered, alarmState>>

\* variant: disabling leaves the triggered flags as they are
setAlarmEnabled_keep(enabled) ==
  /\ alarmEnabled' = enabled
  /\ UNCHANGED <<alarmTriggered, alarmState>>

\* setAlarmEnabled(enabled)
setAlarmEnabled(enabled) ==
  /\ alarmEnabled' = enabled
  /\ IF ~enabled
     THEN /\ alarmTriggered' = FALSE
          /\ alarmState' = [alarmState EXCEPT !.triggered = FALSE]
     ELSE UNCHANGED <<alarmTriggered, alarmState>>

\* a read cycle stores new smoothed PM2.5 and PM10 values in sensorData
SensorDataWritten(p25, p10) ==
  /\ sensorData' = [sensorData EXCEPT !.pm25 = p25, !.pm10 = p10]
  /\ UNCHANGED <<now, alarmVars>>

(***************************************************************************)
(* Sensor acquisition: filters, the two sensor reads, the anomaly check    *)
(* and the scheduler.  The handlers run to completion, so each is computed *)
(* on a record s of the state it touches (s.t is millis(), s.tx the        *)
(* commands written to the sensor, s.log the history of the cycle).        *)
(***************************************************************************)
\* a frame carrying the 13 words w
FrameOfWords(w) ==
  LET b == <<66, 77, 0, 28>> \o
           [j \in 1..26 |-> IF j % 2 = 1 THEN w[(j + 1) \div 2] \div 256
                                         ELSE w[j \div 2] % 256]
  IN b \o <<SumSeq(b) \div 256, SumSeq(b) % 256>>

\* the frame the sensor answers with when it measures the given PM values
PMFrame(pm1, pm25, pm10) ==
  FrameOfWords(<<pm1, pm25, pm10, pm1, pm25, pm10, 100, 50, 20, 10, 5, 1, 0>>)

\* C integer division (truncation toward zero)
TruncDiv(a, b) == IF a >= 0 THEN a \div b ELSE -((-a) \div b)

\* a filter that never drops its oldest sample
Reading_grow(f, v) ==
  LET all == Append(f, v)
  IN [f |-> all, out |-> TruncDiv(SumSeq(all), Len(all))]

\* movingAvg::reading: the window after the sample and the mean it returns
Reading(f, v) ==
  LET all == Append(f, v)
      win == IF Len(all) > SENSOR_AVERAGE_SAMPLES THEN Tail(all) ELSE all
  IN [f |-> win, out |-> TruncDiv(SumSeq(win), Len(win))]

\* movingAvg::reset
ResetFilter == <<>>

\* (int)(value * factor) when the calibration factor is not 1.0
ApplyFactor(value, factor) ==
  IF factor # 100 THEN (value * factor) \div 100 ELSE value

\* the history record of a read cycle in which nothing has happened yet
NoCycle ==
  [ran |-> FALSE, pmsOk |-> FALSE, bmeOk |-> FALSE,
   pmsWentOffline |-> FALSE, pmsReinit |-> FALSE, pmsFiltersReset |-> FALSE,
   bmeWentOffline |-> FALSE, bmeReinit |-> FALSE, bmeFiltersReset |-> FALSE,
   beginOk |-> FALSE, woke |-> FALSE, slept |-> FALSE,
   bmeIn |-> [tRaw |-> 0, hum |-> 0, pres |-> 0]]

\* the state the sensor handlers work on
Sens ==
  [sd |-> sensorData, d |-> PmsObj,
   pm1Avg |-> pm1Avg, pm25Avg |-> pm25Avg, pm10Avg |-> pm10Avg,
   tempAvg |-> tempAvg, humAvg |-> humAvg, presAvg |-> presAvg,
   mode |-> _mode, pmsStatus |-> pmsStatus, bmeStatus |-> bmeStatus,
   pmsSensorOnline |-> pmsSensorOnline, bmeSensorOnline |-> bmeSensorOnline,
   pmsSensorRetry |-> pmsSensorRetry, bmeSensorRetry |-> bmeSensorRetry,
   pmsWoken |-> pmsWoken,
   prevPm1 |-> prevPm1, prevPm25 |-> prevPm25, prevPm10 |-> prevPm10,
   stuckCounter |-> stuckCounter, zeroCounter |-> zeroCounter,
   sensorStatusText |-> sensorStatusText,
   t |-> now, tx |-> <<>>, log |-> NoCycle]

\* PMS::wakeUp, PMS::passiveMode, PMS::requestRead, PMS::sleep
wakeUp(s) == [s EXCEPT !.tx = Append(@, "wakeUp")]
passiveMode(s) == [s EXCEPT !.tx = Append(@, "passiveMode"),
                            !.mode = "MODE_PASSIVE"]
requestRead(s) ==
  IF s.mode = "MODE_PASSIVE" THEN [s EXCEPT !.tx = Append(@, "requestRead")]
  ELSE s
sleep(s) == [s EXCEPT !.tx = Append(@, "sleep")]

initPMS(s) ==
  [passiveMode(wakeUp(s)) EXCEPT !.pmsWoken = TRUE, !.log.pmsReinit = TRUE]

\* initBME; found: bme.begin succeeded at one of the two addresses
initBME(s, found) ==
  IF ~found
  THEN [s EXCEPT !.bmeSensorOnline = FALSE, !.bmeStatus = "OFFLINE",
                 !.log.bmeReinit = TRUE, !.log.beginOk = FALSE]
  ELSE [s EXCEPT !.bmeSensorOnline = TRUE, !.bmeStatus = "OK",
                 !.log.bmeReinit = TRUE, !.log.beginOk = TRUE]

setPMSPower(s, state) ==
  IF state
  THEN [passiveMode(wakeUp(s)) EXCEPT !.pmsWoken = TRUE, !.log.woke = TRUE]
  ELSE [sleep([s EXCEPT !.tx = Append(@, "flush"), !.t = @ + 100,
                        !.pmsWoken = FALSE])
          EXCEPT !.log.slept = TRUE]

\* PMS::readUntil run to its end on the bytes the sensor sends, one per
\* millisecond from time t on; s0 is the start time of the call
RECURSIVE RunReadUntil(_, _, _, _, _)
RunReadUntil(d, bytes, t, s0, to) ==
  IF bytes = <<>>
  THEN [d |-> PMSloop(d, FALSE, 0, s0 + to - 1), ok |-> FALSE, t |-> s0 + to]
  ELSE LET d1 == PMSloop(d, TRUE, Head(bytes), t)
       IN IF d1._status = STATUS_OK THEN [d |-> d1, ok |-> TRUE, t |-> t]
          ELSE IF StillWaiting(t, s0, to)
               THEN RunReadUntil(d1, Tail(bytes), t + 1, s0, to)
               ELSE [d |-> d1, ok |-> FALSE, t |-> t]

\* the offline threshold taken one failure too early
RetriesExceeded_ge(retry) == retry >= SENSOR_RETRIES_OFFLINE

\* pmsSensorRetry > SENSOR_RETRIES_OFFLINE, bmeSensorRetry > SENSOR_RETRIES_OFFLINE
RetriesExceeded(retry) == retry > SENSOR_RETRIES_OFFLINE

\* readPMSSensor, the branch taken when readUntil returned true
PMSReadOk(s) ==
  LET r1 == Reading(s.pm1Avg, s.d.data.PM_AE_UG_1_0)
      r25 == Reading(s.pm25Avg, s.d.data.PM_AE_UG_2_5)
      r10 == Reading(s.pm10Avg, s.d.data.PM_AE_UG_10_0)
  IN [s EXCEPT !.pm1Avg = r1.f, !.pm25Avg = r25.f, !.pm10Avg = r10.f,
               !.sd.pm1 = r1.out,
               !.sd.pm25 = ApplyFactor(r25.out, calibration.pm25Factor),
               !.sd.pm10 = ApplyFactor(r10.out, calibration.pm10Factor),
               !.sd.count_0_3 = s.d.data.PM_RAW_0_3,
               !.sd.count_0_5 = s.d.data.PM_RAW_0_5,
               !.sd.count_1_0 = s.d.data.PM_RAW_1_0,
               !.sd.count_2_5 = s.d.data.PM_RAW_2_5,
               !.sd.count_5_0 = s.d.data.PM_RAW_5_0,
               !.sd.count_10_0 = s.d.data.PM_RAW_10_0,
               !.pmsSensorRetry = 0,
               !.pmsSensorOnline = TRUE,
               !.pmsStatus = IF s.pmsSensorOnline THEN @ ELSE "OK",
               !.log.pmsOk = TRUE]

\* readPMSSensor, the branch taken when readUntil returned false
PMSReadFailed(s) ==
  IF s.pmsSensorOnline
  THEN LET s1 == [s EXCEPT !.pmsSensorRetry = @ + 1]
       IN IF RetriesExceeded(s1.pmsSensorRetry)
          THEN initPMS([s1 EXCEPT !.pmsSensorOnline = FALSE,
                                  !.pmsStatus = "OFFLINE",
                                  !.pm1Avg = ResetFilter,
                                  !.pm25Avg = ResetFilter,
                                  !.pm10Avg = ResetFilter,
                                  !.log.pmsWentOffline = TRUE,
                                  !.log.pmsFiltersReset = TRUE])
          ELSE s1
  ELSE initPMS(s)

\* readPMSSensor; resp: the bytes the sensor answers the request with
readPMSSensor(s, resp) ==
  LET s1 == requestRead(s)
      r == RunReadUntil([s1.d EXCEPT !._status = STATUS_WAIT], resp, s1.t,
                        s1.t, SINGLE_RESPONSE_TIME)
      s2 == [s1 EXCEPT !.d = r.d, !.t = r.t]
  IN IF r.ok THEN PMSReadOk(s2) ELSE PMSReadFailed(s2)

\* variant: the third segment starts at 1.25
EPAFactor_drop(humidity) ==
  IF humidity <= 3000 THEN 20000
  ELSE IF humidity <= 5000 THEN 20000 + (humidity - 3000)
  ELSE IF humidity <= 7000 THEN 22000 + 2 * (humidity - 5000)
  ELSE IF humidity <= 9000 THEN 25000 + 4 * (humidity - 7000)
  ELSE 34000 + 6 * (humidity - 9000)

\* the divisor of applyEPAHumidityCorrection in units of 1/20000, for a
\* humidity in hundredths of a percent
EPAFactor(humidity) ==
  IF humidity <= 3000 THEN 20000
  ELSE IF humidity <= 5000 THEN 20000 + (humidity - 3000)
  ELSE IF humidity <= 7000 THEN 22000 + 2 * (humidity - 5000)
  ELSE IF humidity <= 9000 THEN 26000 + 4 * (humidity - 7000)
  ELSE 34000 + 6 * (humidity - 9000)

\* (int)applyEPAHumidityCorrection((float)pmValue, humidity)
applyEPAHumidityCorrection(pmValue, humidity) ==
  TruncDiv(pmValue * 20000, EPAFactor(humidity))

\* x times v for v >= 0 in hundredths, kept below 2^31
Mul100(x, v) == x * (v \div 100) + TruncDiv(x * (v % 100), 100)

\* calculateHeatIndex, fullHeatIndex: the regression evaluated as in the
\* code, ((C * R + B) * R + A), for temperature and humidity in hundredths;
\* the result is in units of 1e-4 degrees
fullHeatIndex(temperature, humidity) ==
  LET A == Mul100(Mul100(c5, temperature) + c2, temperature) + c1
      B == Mul100(Mul100(c7, temperature) + c4, temperature) + c3
      C == Mul100(Mul100(c9, temperature) + c8, temperature) + c6
      CRB == TruncDiv(Mul100(C, humidity), 1000) + TruncDiv(B, 100)
  IN TruncDiv(Mul100(CRB, humidity) + TruncDiv(A, 10), 100)

\* variant: the blend divides by the threshold
BlendSpan_fromZero == THRESHOLD

\* calculateHeatIndex: the denominator of blend
BlendSpan == THRESHOLD - TRANSITION_START

\* calculateHeatIndex in units of 1e-4 degrees; blend is the fraction
\* (temperature - TRANSITION_START) / BlendSpan
calculateHeatIndex(temperature, humidity) ==
  IF temperature < TRANSITION_START THEN temperature * 100
  ELSE IF temperature >= THRESHOLD THEN fullHeatIndex(temperature, humidity)
  ELSE LET n == temperature - TRANSITION_START
       IN TruncDiv(temperature * 100 * (BlendSpan - n)
                     + fullHeatIndex(temperature, humidity) * n, BlendSpan)

\* the validity test of readBMESensor; tRaw: bme.readTemperature(),
\* hum: the compensated humidity plus humOffset (both in hundredths)
BMEValid(tRaw, hum) ==
  /\ tRaw > TEMP_MIN_VALID /\ tRaw < TEMP_MAX_VALID
  /\ hum >= HUM_MIN_VALID /\ hum <= HUM_MAX_VALID

\* clamp(value, lo, hi)
clamp(value, lo, hi) == IF value < lo THEN lo ELSE IF value > hi THEN hi ELSE value

\* readBMESensor; in: the values read from the chip, found: the outcome of
\* bme.begin should initBME be called
readBMESensor(s, in, found) ==
  IF BMEValid(in.tRaw, in.hum)
  THEN LET rt == Reading(s.tempAvg, in.tRaw + calibration.tempOffset)
           rh == Reading(s.humAvg, clamp(in.hum, 0, 10000))
           rp == Reading(s.presAvg, in.pres)
       IN [s EXCEPT !.tempAvg = rt.f, !.humAvg = rh.f, !.presAvg = rp.f,
                    !.sd.temperature = rt.out,
                    !.sd.humidity = rh.out,
                    !.sd.pressure = rp.out,
                    !.sd.pm1_corrected =
                       applyEPAHumidityCorrection(s.sd.pm1, rh.out),
                    !.sd.pm25_corrected =
                       applyEPAHumidityCorrection(s.sd.pm25, rh.out),
                    !.sd.pm10_corrected =
                       applyEPAHumidityCorrection(s.sd.pm10, rh.out),
                    !.bmeSensorRetry = 0,
                    !.bmeSensorOnline = TRUE,
                    !.bmeStatus = IF s.bmeSensorOnline THEN @ ELSE "OK",
                    !.log.bmeOk = TRUE]
  ELSE IF s.bmeSensorOnline
  THEN LET s1 == [s EXCEPT !.bmeSensorRetry = @ + 1]
       IN IF RetriesExceeded(s1.bmeSensorRetry)
          THEN initBME([s1 EXCEPT !.bmeSensorOnline = FALSE,
                                  !.bmeStatus = "OFFLINE",
                                  !.tempAvg = ResetFilter,
                                  !.humAvg = ResetFilter,
                                  !.presAvg = ResetFilter,
                                  !.log.bmeWentOffline = TRUE,
                                  !.log.bmeFiltersReset = TRUE], found)
          ELSE s1
  ELSE initBME(s, found)

\* zeroCounter >= ZERO_DATA_THRESHOLD
ZeroThresholdReached(counter) == counter >= ZERO_DATA_THRESHOLD

\* stuckCounter >= FAN_STUCK_THRESHOLD
StuckThresholdReached(counter) == counter >= FAN_STUCK_THRESHOLD

\* the counters and previous values after the two comparisons
FanCounters(s) ==
  LET same == /\ s.sd.pm1 = s.prevPm1
              /\ s.sd.pm25 = s.prevPm25
              /\ s.sd.pm10 = s.prevPm10
      zero == s.sd.pm1 = 0 /\ s.sd.pm25 = 0 /\ s.sd.pm10 = 0
  IN [s EXCEPT !.stuckCounter = IF same THEN @ + 1 ELSE 0,
               !.zeroCounter = IF zero THEN @ + 1 ELSE 0,
               !.prevPm1 = s.sd.pm1, !.prevPm25 = s.sd.pm25,
               !.prevPm10 = s.sd.pm10]

\* variant: the zero counter is tested before the stuck counter
checkFanStatus_zeroFirst(s) ==
  LET s1 == FanCounters(s)
  IN IF ZeroThresholdReached(s1.zeroCounter)
     THEN [s1 EXCEPT !.sensorStatusText = "Zero Data Error",
                     !.pmsStatus = "ZERO_DATA"]
     ELSE IF StuckThresholdReached(s1.stuckCounter)
     THEN [s1 EXCEPT !.sensorStatusText = "Fan Stuck / Error",
                     !.pmsStatus = "FAN_STUCK"]
     ELSE [s1 EXCEPT !.sensorStatusText = "OK", !.pmsStatus = "OK"]

\* checkFanStatus: counters, previous values, then the status by precedence
checkFanStatus(s) ==
  LET s1 == FanCounters(s)
  IN IF StuckThresholdReached(s1.stuckCounter)
     THEN [s1 EXCEPT !.sensorStatusText = "Fan Stuck / Error",
                     !.pmsStatus = "FAN_STUCK"]
     ELSE IF ZeroThresholdReached(s1.zeroCounter)
     THEN [s1 EXCEPT !.sensorStatusText = "Zero Data Error",
                     !.pmsStatus = "ZERO_DATA"]
     ELSE [s1 EXCEPT !.sensorStatusText = "OK", !.pmsStatus = "OK"]

\* variant: the product computed in 16 bits
getReadIntervalMillis_16bit(publishIntervalMinutes) ==
  ((publishIntervalMinutes * 60000) % 65536) \div SENSOR_AVERAGE_SAMPLES

\* getReadIntervalMillis; the product of a uint8_t and 60000 is below 2^32
getReadIntervalMillis(publishIntervalMinutes) ==
  (publishIntervalMinutes * 60000) \div SENSOR_AVERAGE_SAMPLES

\* the handler's result written back to the globals
\* the power commands of the PMS library
PowerCommands == {"wakeUp", "sleep"}

\* history: the last power command after the commands tx were sent
LastPower(tx, prev) ==
  LET idx == {i \in DOMAIN tx : tx[i] \in PowerCommands}
  IN IF idx = {} THEN prev
     ELSE tx[CHOOSE i \in idx : \A j \in idx : j <= i]

StoreSens(s) ==
  /\ sensorData' = s.sd
  /\ StorePms(s.d)
  /\ pm1Avg' = s.pm1Avg /\ pm25Avg' = s.pm25Avg /\ pm10Avg' = s.pm10Avg
  /\ tempAvg' = s.tempAvg /\ humAvg' = s.humAvg /\ presAvg' = s.presAvg
  /\ _mode' = s.mode
  /\ pmsStatus' = s.pmsStatus /\ bmeStatus' = s.bmeStatus
  /\ pmsSensorOnline' = s.pmsSensorOnline
  /\ bmeSensorOnline' = s.bmeSensorOnline
  /\ pmsSensorRetry' = s.pmsSensorRetry
  /\ bmeSensorRetry' = s.bmeSensorRetry
  /\ pmsWoken' = s.pmsWoken
  /\ prevPm1' = s.prevPm1 /\ prevPm25' = s.prevPm25 /\ prevPm10' = s.prevPm10
  /\ stuckCounter' = s.stuckCounter /\ zeroCounter' = s.zeroCounter
  /\ sensorStatusText' = s.sensorStatusText
  /\ pmsTx' = s.tx
  /\ lastPower' = LastPower(s.tx, lastPower)
  /\ now' = s.t

\* history: the run of failed reads after this read (-1: no good read yet
\* and the sensor was not found at start-up)
FailRunAfter(run, ok) == IF ok THEN 0 ELSE IF run = -1 THEN -1 ELSE run + 1

\* the three PM values of a snapshot
PMTriple(sd) == <<sd.pm1, sd.pm25, sd.pm10>>

\* variant: the wake-ahead test without the margin
WakeDue_noMargin ==
  /\ Sub32(now, sensorReadTime) >= getReadIntervalMillis(dataPublishInterval)
  /\ ~pmsWoken /\ pmsSensorOnline /\ ~pmsNoSleep

\* sensorLoop: the wake-ahead test
WakeDue ==
  /\ Sub32(now, sensorReadTime) >=
       Sub32(getReadIntervalMillis(dataPublishInterval),
             PMS_WAKE_BEFORE_SEC * 1000)
  /\ ~pmsWoken /\ pmsSensorOnline /\ ~pmsNoSleep

\* sensorLoop: the read test
ReadDue ==
  Sub32(now, sensorReadTime) >= getReadIntervalMillis(dataPublishInterval)

\* variant: the sensor is put to sleep whenever it is online
SleepAllowed_always(online) == online

\* sensorLoop: the test that guards setPMSPower(false) after a read
SleepAllowed(online) == ~pmsNoSleep /\ online

\* sensorLoop run on the globals; resp, in, found: what the sensors answer
\* if this call reads them
SensAfterLoop(resp, in, found) ==
  LET s0 == IF WakeDue THEN setPMSPower(Sens, TRUE) ELSE Sens
      s1 == checkFanStatus(
              readBMESensor(
                readPMSSensor([s0 EXCEPT !.log.ran = TRUE, !.log.bmeIn = in],
                              resp), in, found))
      s2 == IF SleepAllowed(s1.pmsSensorOnline) THEN setPMSPower(s1, FALSE)
            ELSE s1
  IN IF ReadDue THEN s2 ELSE s0

\* the history of read cycles after a call of sensorLoop that left s
CycleHistory(s) ==
  /\ sensorReadTime' = IF ReadDue THEN now ELSE sensorReadTime
  /\ lastCycle' = IF ReadDue THEN s.log ELSE lastCycle
  /\ cycles' = IF ReadDue THEN cycles + 1 ELSE cycles
  /\ pmsFailRun' = IF ReadDue THEN FailRunAfter(pmsFailRun, s.log.pmsOk)
                   ELSE pmsFailRun
  /\ bmeFailRun' = IF ReadDue THEN FailRunAfter(bmeFailRun, s.log.bmeOk)
                   ELSE bmeFailRun
  /\ offsetOfSample' =
       LET all == IF ReadDue /\ s.log.bmeOk
                  THEN Append(offsetOfSample, calibration.tempOffset)
                  ELSE offsetOfSample
       IN SubSeq(all, Len(all) - Len(s.tempAvg) + 1, Len(all))
  /\ sameRun' = IF ~ReadDue THEN sameRun
                ELSE IF cycles > 0 /\ PMTriple(s.sd) = PMTriple(sensorData)
                THEN sameRun + 1 ELSE 1
  /\ zeroRun' = IF ~ReadDue THEN zeroRun
                ELSE IF PMTriple(s.sd) = <<0, 0, 0>> THEN zeroRun + 1 ELSE 0

\* sensorLoop as called by mainSensorLoop while no publication is due;
\* resp, in, found: what the sensors answer if this call reads them
sensorLoop(resp, in, found) ==
  /\ WakeDue \/ ReadDue
  /\ \E s \in {SensAfterLoop(resp, in, found)} :
       /\ StoreSens(s)
       /\ CycleHistory(s)
       /\ fanWrites' = IF ReadDue THEN 1 ELSE fanWrites
       /\ UNCHANGED <<wire, pos, avail, ruActive, start, timeout, okLog,
                      runStart, runGap, lateByte, lastConsume, calibration,
                      pmsNoSleep, dataPublishInterval, alarmVars,
                      klimerkoSettings, eeprom, bmeTemperatureOffset,
                      cmds, filtVars, attVars, pubVars, utilVars,
                netVars>>

\* publishSensorData, the part that changes state: checkFanStatus is called
\* while the document is built if the particle sensor is online
publishSensorData(s) == IF s.pmsSensorOnline THEN checkFanStatus(s) ELSE s

\* the sensor status publishSensorData puts into the document
StatusPublished(s) ==
  IF s.pmsSensorOnline THEN s.sensorStatusText ELSE "Sensor Offline"

\* mainSensorLoop: sensorLoop, checkAlarms, then the publication if it is
\* due and WiFi and MQTT are up (connected).  The alarm check is left out:
\* with the alarm not triggered and PM values below both thresholds it
\* changes nothing.
mainSensorLoop(resp, in, found, connected) ==
  \E s \in {SensAfterLoop(resp, in, found)} :
    LET pubDue == Sub32(s.t, dataPublishTime) >= dataPublishInterval * 60000
        doPub == pubDue /\ connected
    IN /\ ~alarmState.triggered
       /\ ~Exceeds(s.sd.pm25, alarmState.pm25Threshold)
       /\ ~Exceeds(s.sd.pm10, alarmState.pm10Threshold)
       /\ WakeDue \/ ReadDue \/ doPub
       /\ StoreSens(IF doPub THEN publishSensorData(s) ELSE s)
       /\ CycleHistory(s)
       /\ fanWrites' = (IF ReadDue THEN 1 ELSE fanWrites) +
                       (IF doPub /\ s.pmsSensorOnline THEN 1 ELSE 0)
       /\ dataPublishTime' = IF doPub THEN s.t ELSE dataPublishTime
       /\ publishes' = IF doPub THEN publishes + 1 ELSE publishes
       /\ lastPublished' =
            IF doPub THEN StatusPublished(publishSensorData(s))
            ELSE lastPublished
       /\ UNCHANGED <<wire, pos, avail, ruActive, start, timeout, okLog,
                      runStart, runGap, lateByte, lastConsume, calibration,
                      pmsNoSleep, dataPublishInterval, alarmVars,
                      klimerkoSettings, eeprom, bmeTemperatureOffset,
                      cmds, filtVars, attVars, utilVars, netVars>>

\* changeInterval: the interval it stores
StoredInterval(interval) ==
  IF interval > 5 /\ interval <= 60 THEN interval
  ELSE IF interval <= 5 THEN (IF interval <= 1 THEN 1 ELSE interval)
  ELSE 60

\* variant: only an interval of one minute or less is continuous
ContinuousRequested_le1(interval) == interval <= 1

\* variant: an interval of 5 minutes is duty-cycled
ContinuousRequested_lt(interval) == interval < 5

\* changeInterval: the branch that sets pmsNoSleep and wakes the sensor
ContinuousRequested(interval) == interval <= 5

\* changeInterval, called by mqttCallback with the value of an interval
\* command; the variables of mqttCallback itself are left to the caller
changeInterval(interval) ==
  /\ cmds' = cmds + 1
  /\ intervalArg' = interval
  /\ dataPublishInterval' = StoredInterval(interval)
  /\ pmsNoSleep' = ContinuousRequested(interval)
  /\ StoreSens(IF ContinuousRequested(interval)
               THEN setPMSPower(Sens, TRUE) ELSE Sens)
  /\ UNCHANGED <<wire, pos, avail, ruActive, start, timeout, okLog,
                 runStart, runGap, lateByte, lastConsume, calibration,
                 sensorReadTime, lastCycle, cycles, pmsFailRun, bmeFailRun,
                 sameRun, alarmVars, klimerkoSettings, eeprom,
                 bmeTemperatureOffset, offsetOfSample, filtVars, attVars,
                 histVars, pubVars, utilVars, pendingUpdateUrl, updates,
                 boots, wifiVars>>

(***************************************************************************)
(* Persisted settings (storage.h).  Factors and offsets are in hundredths. *)
(***************************************************************************)
\* the bytes of a Settings struct that calculateSettingsCRC covers
SettingsContent(st) ==
  [header |-> st.header, tempOffset |-> st.tempOffset,
   alarmEnabled |-> st.alarmEnabled,
   pm25CalFactor |-> st.pm25CalFactor, pm10CalFactor |-> st.pm10CalFactor]

\* calculateSettingsCRC: the CRC32 of the content, taken to be collision-free
calculateSettingsCRC(st) == SettingsContent(st)

\* an EEPROM that was never written: no header, CRC of nothing
BlankSettings ==
  [header |-> "", tempOffset |-> 0, alarmEnabled |-> FALSE,
   pm25CalFactor |-> 0, pm10CalFactor |-> 0,
   crc32 |-> [header |-> "erased", tempOffset |-> 0, alarmEnabled |-> FALSE,
              pm25CalFactor |-> 0, pm10CalFactor |-> 0]]

\* a record as saveSettings writes it
SavedSettings(off, alarm, f25, f10) ==
  LET c == [header |-> "KLI", tempOffset |-> off, alarmEnabled |-> alarm,
            pm25CalFactor |-> f25, pm10CalFactor |-> f10]
  IN [header |-> c.header, tempOffset |-> c.tempOffset,
      alarmEnabled |-> c.alarmEnabled, pm25CalFactor |-> c.pm25CalFactor,
      pm10CalFactor |-> c.pm10CalFactor, crc32 |-> c]

isValidCalibrationFactor(factor) ==
  factor >= MIN_CAL_FACTOR /\ factor <= MAX_CAL_FACTOR

\* restoreSettings: the offset and the calibration it leaves in the globals
restoreSettings(st) ==
  LET cal0 == [pm25Factor |-> 100, pm10Factor |-> 100,
               tempOffset |-> 0, humOffset |-> 0]
  IN IF st.header # "KLI" \/ calculateSettingsCRC(st) # st.crc32
     THEN [tempOffset |-> DEFAULT_TEMP_OFFSET, cal |-> cal0]
     ELSE [tempOffset |-> st.tempOffset,
           cal |-> [cal0 EXCEPT
                      !.pm25Factor =
                         IF isValidCalibrationFactor(st.pm25CalFactor)
                         THEN st.pm25CalFactor ELSE @,
                      !.pm10Factor =
                         IF isValidCalibrationFactor(st.pm10CalFactor)
                         THEN st.pm10CalFactor ELSE @]]

\* the settings after setup() has read them from an EEPROM holding st
InitSettings(st) ==
  /\ eeprom = st
  /\ klimerkoSettings = st
  /\ bmeTemperatureOffset = restoreSettings(st).tempOffset
  /\ offsetOfSample = <<>>
  /\ cmds = 0

\* the stand-alone filter before its first sample
InitFilter ==
  /\ fWin = <<>>
  /\ fPushed = <<>>
  /\ fOut = 0

\* the globals after setup(): initSensors has woken the particle sensor and
\* looked for the environmental sensor (found or not)
InitSensors ==
  /\ pm1Avg = <<>> /\ pm25Avg = <<>> /\ pm10Avg = <<>>
  /\ tempAvg = <<>> /\ humAvg = <<>> /\ presAvg = <<>>
  /\ calibration = restoreSettings(klimerkoSettings).cal
  /\ _mode = "MODE_PASSIVE"
  /\ pmsStatus = "OK"
  /\ pmsSensorOnline = TRUE
  /\ bmeSensorOnline \in BOOLEAN
  /\ bmeStatus = IF bmeSensorOnline THEN "OK" ELSE "OFFLINE"
  /\ pmsSensorRetry = 0 /\ bmeSensorRetry = 0
  /\ pmsNoSleep = FALSE
  /\ pmsWoken = TRUE
  /\ prevPm1 = -1 /\ prevPm25 = -1 /\ prevPm10 = -1
  /\ stuckCounter = 0 /\ zeroCounter = 0
  /\ sensorStatusText = "Init"
  /\ sensorReadTime = 0
  /\ dataPublishInterval = 5
  /\ pmsTx = <<"wakeUp", "passiveMode">>
  /\ lastPower = "wakeUp"
  /\ lastCycle = NoCycle
  /\ cycles = 0
  /\ pmsFailRun = 0
  /\ bmeFailRun = IF bmeSensorOnline THEN 0 ELSE -1
  /\ sameRun = 0

(***************************************************************************)
(* Configuration commands (mqttCallback, savePortalData).                  *)
(***************************************************************************)
\* readPMSSensor has not been called yet
InitAttempt ==
  /\ attPhase = "idle"
  /\ attBase = 0
  /\ attDrained = 0
  /\ attReq = 0

\* no read cycle yet
InitHist ==
  /\ zeroRun = 0
  /\ fanWrites = 0

\* nothing published yet
InitPublish ==
  /\ dataPublishTime = 0
  /\ publishes = 0
  /\ lastPublished = "none"

\* the state outside the sensors, settings and filters after setup()
\* no call of applyEPAHumidityCorrection on its own yet
NoEPACall ==
  [applied |-> FALSE, pmValue |-> 0, humidity |-> 0, factor |-> 0,
   corrected |-> 0]

InitEPAIdle ==
  /\ epaIn = [pmValue |-> 0, humidity |-> 0]
  /\ epaOut = NoEPACall

\* no call of calculateHeatIndex on its own yet
NoHeatCall ==
  [applied |-> FALSE, temperature |-> 0, humidity |-> 0, value |-> 0]

InitHeatIdle ==
  /\ hiIn = [temperature |-> 0, humidity |-> 0]
  /\ hiOut = NoHeatCall

(***************************************************************************)
(* WiFi reconnect backoff (network.h).                                     *)
(***************************************************************************)
\* 1UL << n
RECURSIVE ShiftLeft1(_)
ShiftLeft1(n) == IF n = 0 THEN 1 ELSE 2 * ShiftLeft1(n - 1)

\* min(a, b)
min(a, b) == IF a < b THEN a ELSE b

\* the backoff expression of connectWiFi for a fail count
ReconnectInterval(count) ==
  min(WIFI_RECONNECT_MAX_INTERVAL,
      WIFI_RECONNECT_BASE_INTERVAL * ShiftLeft1(min(count, 5)))

\* reconnectFailCount++ on a uint8_t
IncUint8(n) == (n + 1) % 256

\* connectWiFi on WifiState ws; ok: wm.autoConnect succeeded
connectWiFi(ws, ok) ==
  IF ~ok
  THEN [ws EXCEPT !.connectionLost = TRUE,
                  !.reconnectFailCount = IncUint8(@),
                  !.reconnectInterval =
                     ReconnectInterval(IncUint8(ws.reconnectFailCount))]
  ELSE [ws EXCEPT !.connectionLost = FALSE,
                  !.reconnectFailCount = 0,
                  !.reconnectInterval = WIFI_RECONNECT_BASE_INTERVAL]

\* no interval command, no firmware update and no restart yet
InitCmd ==
  /\ intervalArg = 5
  /\ pendingUpdateUrl = ""
  /\ updates = 0
  /\ boots = 0

\* no call of mqttCallback yet
InitMqtt ==
  /\ msgs = 0
  /\ msgLen = 0
  /\ jsonTop = -1

\* connectWiFi as setup() calls it on the zero-initialised wifiState;
\* ok: wm.autoConnect succeeded
WifiAfterSetup(ok) ==
  connectWiFi([connectionLost |-> FALSE, reconnectFailCount |-> 0,
               reconnectInterval |-> 0, lastReconnectAttempt |-> 0], ok)

\* the WiFi state after a setup() that found the network
InitWifiUp ==
  /\ wlStatus = "WL_CONNECTED"
  /\ wifiState = WifiAfterSetup(TRUE)
  /\ wifiAttempts = 0
  /\ failRun = 0

InitNet == InitCmd /\ InitMqtt /\ InitWifiUp

InitMisc ==
  /\ InitAttempt /\ InitHist /\ InitPublish /\ InitEPAIdle /\ InitHeatIdle
  /\ InitNet

\* klimerkoSettings with its CRC recomputed, and the EEPROM after put/commit
WithCRC(st) == [st EXCEPT !.crc32 = calculateSettingsCRC(st)]

\* what a configuration command leaves alone
ConfigFrame ==
  /\ cmds < MaxCmds
  /\ cmds' = cmds + 1
  /\ UNCHANGED <<now, decVars, alarmVars, sensorData, pm1Avg, pm25Avg,
                 pm10Avg, presAvg, healthVars, filtVars, miscVars>>

\* mqttCallback, asset temperature-offset with a value isValidNumber accepts
MqttTemperatureOffset(v) ==
  /\ bmeTemperatureOffset' = v
  /\ calibration' = [calibration EXCEPT !.tempOffset = v]
  /\ klimerkoSettings' = WithCRC([klimerkoSettings EXCEPT !.tempOffset = v])
  /\ eeprom' = klimerkoSettings'
  /\ tempAvg' = ResetFilter
  /\ humAvg' = ResetFilter
  /\ offsetOfSample' = <<>>
  /\ ConfigFrame

\* mqttCallback, asset calibration; doc: the keys the payload contains
MqttCalibration(doc) ==
  /\ calibration' =
       [pm25Factor |-> IF "pm25" \in DOMAIN doc THEN doc.pm25
                       ELSE calibration.pm25Factor,
        pm10Factor |-> IF "pm10" \in DOMAIN doc THEN doc.pm10
                       ELSE calibration.pm10Factor,
        tempOffset |-> IF "temp" \in DOMAIN doc THEN doc.temp
                       ELSE calibration.tempOffset,
        humOffset |-> IF "hum" \in DOMAIN doc THEN doc.hum
                      ELSE calibration.humOffset]
  /\ klimerkoSettings' =
       WithCRC([klimerkoSettings EXCEPT
                  !.pm25CalFactor = calibration'.pm25Factor,
                  !.pm10CalFactor = calibration'.pm10Factor])
  /\ eeprom' = klimerkoSettings'
  /\ UNCHANGED <<bmeTemperatureOffset, tempAvg, humAvg, offsetOfSample>>
  /\ ConfigFrame

\* savePortalData; off: the temperature offset typed into the portal
savePortalData(off) ==
  /\ bmeTemperatureOffset' = off
  /\ calibration' = [calibration EXCEPT !.tempOffset = off]
  /\ klimerkoSettings' =
       SavedSettings(off, alarmEnabled, calibration.pm25Factor,
                     calibration.pm10Factor)
  /\ eeprom' = klimerkoSettings'
  /\ UNCHANGED <<tempAvg, humAvg, offsetOfSample>>
  /\ ConfigFrame

\* mqttCallback, asset "alarm-enable" with a value that parses to v:
\* updateBoolSetting("alarmEnabled", v), then setAlarmEnabled(v)
MqttAlarmEnable(v) ==
  /\ klimerkoSettings' = WithCRC([klimerkoSettings EXCEPT !.alarmEnabled = v])
  /\ eeprom' = klimerkoSettings'
  /\ setAlarmEnabled(v)
  /\ UNCHANGED <<now, sensorData, alarmEvents, evals, bmeTemperatureOffset,
                 offsetOfSample>>

\* restoreSettings: the alarm flag it leaves in the global alarmEnabled,
\* which is true before setup() runs
RestoredAlarmEnabled(st) ==
  IF st.header # "KLI" \/ calculateSettingsCRC(st) # st.crc32 THEN TRUE
  ELSE st.alarmEnabled

\* initAlarms: the alarm flag it leaves, whatever was restored
AlarmEnabledAfterInit(restored) == TRUE

\* ESP.restart() or a power cycle, followed by setup(): restoreSettings
\* from the EEPROM into the freshly initialised globals, then initAlarms.
\* The specification that restarts the device takes no read cycle and no
\* clock step, so the sensor state and the clock are what setup() leaves
Restart ==
  /\ boots < MaxBoots
  /\ boots' = boots + 1
  /\ klimerkoSettings' = eeprom
  /\ bmeTemperatureOffset' = restoreSettings(eeprom).tempOffset
  /\ calibration' = restoreSettings(eeprom).cal
  /\ alarmEnabled' = AlarmEnabledAfterInit(RestoredAlarmEnabled(eeprom))
  /\ alarmTriggered' = FALSE
  /\ alarmState' = [triggered |-> FALSE, lastTriggerTime |-> 0,
                    pm25Threshold |-> ALARM_PM25_THRESHOLD,
                    pm10Threshold |-> ALARM_PM10_THRESHOLD,
                    cooldownMs |-> ALARM_COOLDOWN_MS]
  /\ tempAvg' = ResetFilter /\ humAvg' = ResetFilter
  /\ offsetOfSample' = <<>>
  /\ UNCHANGED <<now, decVars, sensorData, alarmEvents, evals, eeprom, cmds,
                 pm1Avg, pm25Avg, pm10Avg, presAvg, healthVars, filtVars,
                 attVars, histVars, pubVars, utilVars, intervalArg,
                 pendingUpdateUrl, updates, mqttVars, wifiVars>>

\* PM2.5 / PM10 values on both sides of the default thresholds
AlarmPM25 == {35, 36}
AlarmPM10 == {45, 46}

\* clock steps of the alarm specification: 10 and 51 minutes
AlarmTicks == {600000, 3060000}

InitAlarmSpec ==
  /\ now = 0
  /\ wire = <<>>
  /\ pos = 0
  /\ avail = 0
  /\ InitPms
  /\ initAlarms
  /\ InitSensorData
  /\ InitSettings(BlankSettings)
  /\ InitFilter
  /\ InitMisc
  /\ InitSensors
  /\ bmeSensorOnline = TRUE

NextAlarm ==
  \/ \E d \in AlarmTicks :
       Tick(d, MaxTimeAlarm) /\ UNCHANGED <<decVars, alarmVars, sensorData, sensVars,
                     extVars>>
  \/ \E p25 \in AlarmPM25, p10 \in AlarmPM10 :
       SensorDataWritten(p25, p10) /\ UNCHANGED <<decVars, sensVars, extVars>>
  \/ checkAlarms /\ UNCHANGED <<decVars, sensVars, extVars>>
  \/ \E v \in BOOLEAN :
       MqttAlarmEnable(v) /\ UNCHANGED <<decVars, sensVars, cmds, filtVars,
                                          miscVars>>

SpecAlarm == InitAlarmSpec /\ [][NextAlarm]_vars

(***************************************************************************)
(* Decoder specification: a stream of two frames, the first possibly       *)
(* corrupted at one position, polled by readUntil calls.                   *)
(***************************************************************************)
\* positions (1-based) at which the first frame of a stream may be corrupted
CorruptPositions == {1, 2, 3, 4, 5, 18, 30, 31, 32}

\* clock steps of the decoder specification
DecTicks == {100, 101}

\* timeouts passed to readUntil in the decoder specification
DecTimeouts == {200}

FirstFrames(k) ==
  {ValidFrame(k)} \cup {Corrupt(ValidFrame(k), p) : p \in CorruptPositions}

\* the frame kind that follows a first frame of kind k
NextKind(k) == (k % NumKinds) + 1

\* lengths at which the sensor may break off a frame (dropped bytes, reset)
TruncLens == {5}

\* a frame broken off after n bytes, followed by a complete frame
TruncStreams ==
  {SubSeq(ValidFrame(k), 1, n) \o ValidFrame(NextKind(k)) :
     k \in 1..NumKinds, n \in TruncLens}

DecStreams ==
  UNION {{f \o ValidFrame(NextKind(k)) : f \in FirstFrames(k)} :
         k \in 1..NumKinds}
  \cup TruncStreams

InitDec ==
  /\ now = 0
  /\ wire \in DecStreams
  /\ pos = 0
  /\ avail = 0
  /\ InitPms
  /\ initAlarms
  /\ InitSensorData
  /\ InitSettings(BlankSettings)
  /\ InitFilter
  /\ InitMisc
  /\ InitSensors
  /\ bmeSensorOnline = TRUE

NextDec ==
  \/ \E d \in DecTicks :
        Tick(d, MaxTimeDec) /\ UNCHANGED <<decVars, alarmVars, sensorData, sensVars,
                     extVars>>
  \/ Arrive /\ UNCHANGED <<alarmVars, sensorData, sensVars, extVars>>
  \/ \E to \in DecTimeouts :
        ReadUntilBegin(to) /\ UNCHANGED <<alarmVars, sensorData, sensVars, extVars>>
  \/ ReadUntilPoll /\ UNCHANGED <<alarmVars, sensorData, sensVars, extVars>>

SpecDec == InitDec /\ [][NextDec]_vars

(***************************************************************************)
(* readUntil specification: calls of readUntil on a silent line, on        *)
(* garbage, on a frame with a wrong sum and on a valid frame, with a       *)
(* clock that keeps running and a loop that keeps executing.               *)
(***************************************************************************)
\* bytes that never form a frame
Garbage == <<0, 66, 1, 66, 77, 0, 29, 66>>

LiveStreams == {<<>>, Garbage, Corrupt(ValidFrame(1), 30), ValidFrame(2)}

\* clock steps of the readUntil specification
LiveTicks == {100}

\* timeouts passed to readUntil in the readUntil specification
LiveTimeouts == {0, 200}

InitLive ==
  /\ now = 0
  /\ wire \in LiveStreams
  /\ pos = 0
  /\ avail = 0
  /\ InitPms
  /\ initAlarms
  /\ InitSensorData
  /\ InitSettings(BlankSettings)
  /\ InitFilter
  /\ InitMisc
  /\ InitSensors
  /\ bmeSensorOnline = TRUE

\* millis() advances
TickLive ==
  \E d \in LiveTicks :
     Tick(d, MaxTimeLive) /\ UNCHANGED <<decVars, alarmVars, sensorData,
                                         sensVars, extVars>>

\* one iteration of the do-while of readUntil
PollLive ==
  ReadUntilPoll /\ UNCHANGED <<alarmVars, sensorData, sensVars, extVars>>

NextLive ==
  \/ TickLive
  \/ Arrive /\ UNCHANGED <<alarmVars, sensorData, sensVars, extVars>>
  \/ \E to \in LiveTimeouts :
        ReadUntilBegin(to) /\ UNCHANGED <<alarmVars, sensorData, sensVars, extVars>>
  \/ PollLive

\* the timer behind millis() keeps counting and the processor keeps
\* executing the loop of readUntil
SpecLive ==
  InitLive /\ [][NextLive]_vars /\ WF_vars(TickLive) /\ WF_vars(PollLive)

(***************************************************************************)
(* Read-attempt specification: readPMSSensor at byte level.  An attempt    *)
(* drains the receive buffer, sends the read request and runs readUntil;   *)
(* attempts are a read interval apart.                                     *)
(***************************************************************************)
\* variant: the drain loop is left at once
DrainDone_skip(av) == TRUE

\* the exit condition of 'while (pmsSerial.available()) pmsSerial.read();'
DrainDone(av) == av = 0

\* the smallest publish interval changeInterval lets through (minutes)
MinPublishInterval == 1

\* readPMSSensor is entered; the scheduler calls it a read interval after
\* the previous call
ReadAttemptStart ==
  /\ ~ruActive /\ attPhase = "idle"
  /\ attReq < MaxAttempts
  /\ attReq = 0 \/ Sub32(now, start) >= getReadIntervalMillis(MinPublishInterval)
  /\ attPhase' = "drain"
  /\ attBase' = pos + avail
  /\ UNCHANGED <<now, decVars, attDrained, attReq>>

\* one iteration of the drain loop: pmsSerial.read(), the byte is dropped
DrainStep ==
  /\ attPhase = "drain" /\ ~DrainDone(avail)
  /\ pos' = pos + 1
  /\ avail' = avail - 1
  /\ attDrained' = attDrained + 1
  /\ UNCHANGED <<now, wire, _index, _frameLen, _checksum, _calculatedChecksum,
                 _payload, _lastByteTime, _status, pmsData, ruActive, start,
                 timeout, okLog, runStart, runGap, lateByte, lastConsume,
                 attPhase, attBase, attReq>>

\* the drain loop ends: pms.requestRead(), then readUntil is entered
RequestAndRead ==
  /\ attPhase = "drain" /\ DrainDone(avail)
  /\ attPhase' = "idle"
  /\ attReq' = IF _mode = "MODE_PASSIVE" THEN attReq + 1 ELSE attReq
  /\ ReadUntilBegin(SINGLE_RESPONSE_TIME)
  /\ UNCHANGED <<attBase, attDrained>>

\* clock steps of the read-attempt specification
ReadTicks == {1000, 5000, 6000}

\* what the sensor sends: a frame broken off after a few bytes, or a frame,
\* followed by a complete frame
ReadStreams == TruncStreams \cup {ValidFrame(1) \o ValidFrame(2)}

InitRead ==
  /\ now = 0
  /\ wire \in ReadStreams
  /\ pos = 0
  /\ avail = 0
  /\ InitPms
  /\ initAlarms
  /\ InitSensorData
  /\ InitSettings(BlankSettings)
  /\ InitFilter
  /\ InitMisc
  /\ InitSensors
  /\ bmeSensorOnline = TRUE

\* millis() advances.  readUntil is a busy loop, so while it runs the clock
\* does not pass its deadline without an iteration seeing it; between two
\* attempts the clock is taken straight to the time the next read is due
\* (the first read is taken at time 0)
TickRead(d) ==
  /\ attPhase = "idle"
  /\ IF ruActive THEN now + d <= start + timeout
     ELSE /\ attReq > 0
          /\ now + d = start + getReadIntervalMillis(MinPublishInterval)
  /\ Tick(d, MaxTimeRead)
  /\ UNCHANGED <<decVars, alarmVars, sensorData, sensVars, extVars>>

\* a byte arrives; the drain loop takes microseconds per byte and a byte on
\* the wire a millisecond, so none arrives while the loop runs
ArriveRead ==
  /\ attPhase = "idle"
  /\ Arrive
  /\ UNCHANGED <<alarmVars, sensorData, sensVars, extVars>>

NextRead ==
  \/ \E d \in ReadTicks : TickRead(d)
  \/ ArriveRead
  \/ ReadAttemptStart /\ UNCHANGED <<alarmVars, sensorData, sensVars, calVars,
                                      filtVars, histVars, pubVars, utilVars,
                netVars>>
  \/ DrainStep /\ UNCHANGED <<alarmVars, sensorData, sensVars, calVars,
                               filtVars, histVars, pubVars, utilVars,
                netVars>>
  \/ RequestAndRead /\ UNCHANGED <<alarmVars, sensorData, sensVars, calVars,
                                    filtVars, histVars, pubVars, utilVars,
                netVars>>
  \/ ReadUntilPoll /\ UNCHANGED <<alarmVars, sensorData, sensVars, extVars>>

SpecRead == InitRead /\ [][NextRead]_vars

(***************************************************************************)
(* Sensor specifications: the scheduler reads both sensors every read      *)
(* interval; each read is answered by one of a few sensor behaviours.      *)
(* SpecHealth: either sensor may fail any read.  SpecFan: the particle     *)
(* sensor measures one of two value triples or stays silent.               *)
(***************************************************************************)
\* clock steps of the sensor specifications: one read interval
SensTicks == {30000}

\* a plausible reading of the environmental sensor, and one whose humidity
\* is above 100 %
GoodBME == [tRaw |-> 2150, hum |-> 4500, pres |-> 101325]
BadBME == [tRaw |-> 2150, hum |-> 10001, pres |-> 101325]

InitSens ==
  /\ now = 0
  /\ wire = <<>>
  /\ pos = 0
  /\ avail = 0
  /\ InitPms
  /\ initAlarms
  /\ InitSensorData
  /\ InitSettings(BlankSettings)
  /\ InitFilter
  /\ InitMisc
  /\ InitSensors

SensTick ==
  \E d \in SensTicks :
     Tick(d, MaxTimeSens) /\ UNCHANGED <<decVars, alarmVars, sensorData, sensVars,
                     extVars>>

NextHealth ==
  \/ SensTick
  \/ \E resp \in {<<>>, PMFrame(5, 10, 15)}, in \in {GoodBME, BadBME},
        found \in BOOLEAN :
        sensorLoop(resp, in, found)

SpecHealth == InitSens /\ [][NextHealth]_vars

InitFan == InitSens /\ bmeSensorOnline = TRUE

NextFan ==
  \/ SensTick
  \/ \E resp \in {<<>>, PMFrame(5, 10, 15), PMFrame(6, 10, 15)} :
        sensorLoop(resp, GoodBME, TRUE)

SpecFan == InitFan /\ [][NextFan]_vars

(***************************************************************************)
(* Zero-data specification: the particle sensor measures nothing, measures *)
(* one unit in every channel, or stays silent.                             *)
(***************************************************************************)
\* answers of the particle sensor in the zero-data specification
ZeroResponses == {<<>>, PMFrame(0, 0, 0), PMFrame(1, 1, 1)}

ZeroTick ==
  \E d \in SensTicks :
     Tick(d, MaxTimeZero) /\ UNCHANGED <<decVars, alarmVars, sensorData,
                                         sensVars, extVars>>

NextZero ==
  \/ ZeroTick
  \/ \E resp \in ZeroResponses : sensorLoop(resp, GoodBME, TRUE)

SpecZero == InitFan /\ [][NextZero]_vars

(***************************************************************************)
(* Publish specification: mainSensorLoop with a particle sensor that       *)
(* measures zeros or one unit per channel, WiFi and MQTT up or down.       *)
(***************************************************************************)
\* answers of the particle sensor in the publish specification
PubResponses == {PMFrame(0, 0, 0), PMFrame(1, 1, 1)}

\* the clock advances by a read interval; loop() calls mainSensorLoop all
\* the time, so a read that is due is taken before the clock moves on
PubTick ==
  \E d \in SensTicks :
     ~ReadDue /\
     Tick(d, MaxTimePub) /\ UNCHANGED <<decVars, alarmVars, sensorData,
                                        sensVars, extVars>>

NextPub ==
  \/ PubTick
  \/ \E resp \in PubResponses, connected \in BOOLEAN :
        mainSensorLoop(resp, GoodBME, TRUE, connected)

SpecPub == InitFan /\ [][NextPub]_vars

(***************************************************************************)
(* Scheduler specification: sensorLoop called in every iteration of        *)
(* loop(), a particle sensor that answers or stays silent, and interval    *)
(* commands that switch between duty-cycled and continuous operation.      *)
(***************************************************************************)
\* values of the interval commands: continuous, duty-cycled, out of range
SchedIntervals == {1, 10, 61}

\* clock step of the scheduler specification
SchedTicks == {6000}

\* answers of the particle sensor in the scheduler specification
SchedResponses == {<<>>, PMFrame(5, 10, 15)}

\* time passes while the iterations of loop() find nothing to do
SchedTick ==
  \E d \in SchedTicks :
     /\ ~(WakeDue \/ ReadDue)
     /\ Tick(d, MaxTimeSched)
     /\ UNCHANGED <<decVars, alarmVars, sensorData, sensVars, extVars>>

NextSched ==
  \/ SchedTick
  \/ \E resp \in SchedResponses : sensorLoop(resp, GoodBME, TRUE)
  \/ \E interval \in SchedIntervals :
        /\ cmds < MaxIntervalCmds
        /\ changeInterval(interval)
        /\ UNCHANGED mqttVars

SpecSched == InitFan /\ [][NextSched]_vars

(***************************************************************************)
(* Interval-command specification: interval commands with values inside    *)
(* and outside the accepted range, between the iterations of loop().       *)
(***************************************************************************)
\* values of the interval commands
IntervalValues == {-1, 0, 1, 2, 5, 6, 30, 60, 61, 300}

IntervalTick ==
  \E d \in SchedTicks :
     /\ ~(WakeDue \/ ReadDue)
     /\ Tick(d, MaxTimeInterval)
     /\ UNCHANGED <<decVars, alarmVars, sensorData, sensVars, extVars>>

NextInterval ==
  \/ IntervalTick
  \/ \E resp \in SchedResponses : sensorLoop(resp, GoodBME, TRUE)
  \/ \E interval \in IntervalValues :
        /\ cmds < MaxCmds
        /\ changeInterval(interval)
        /\ UNCHANGED mqttVars

SpecInterval == InitFan /\ [][NextInterval]_vars

(***************************************************************************)
(* WiFi specification: maintainWiFi called in every iteration of loop(),   *)
(* a link that drops and comes back, and reconnect attempts that fail or   *)
(* succeed.                                                                *)
(***************************************************************************)
\* the state setup() leaves, with autoConnect failed or succeeded
InitWifi ==
  /\ now = 0
  /\ wire = <<>>
  /\ pos = 0
  /\ avail = 0
  /\ InitPms
  /\ initAlarms
  /\ InitSensorData
  /\ InitSettings(BlankSettings)
  /\ InitFilter
  /\ InitAttempt /\ InitHist /\ InitPublish /\ InitEPAIdle /\ InitHeatIdle
  /\ InitCmd /\ InitMqtt
  /\ InitSensors
  /\ bmeSensorOnline = TRUE
  /\ \E ok \in BOOLEAN :
       /\ wlStatus = IF ok THEN "WL_CONNECTED" ELSE "WL_DISCONNECTED"
       /\ wifiState = WifiAfterSetup(ok)
       /\ failRun = IF ok THEN 0 ELSE 1
  /\ wifiAttempts = 0

\* what the WiFi actions leave alone
WifiFrame ==
  UNCHANGED <<decVars, alarmVars, sensorData, sensVars, calVars, filtVars,
              attVars, histVars, pubVars, utilVars, cmdVars, mqttVars>>

\* the reconnect test of maintainWiFi
ReconnectDue(portalActive) ==
  /\ ~portalActive
  /\ Sub32(now, wifiState.lastReconnectAttempt) >= wifiState.reconnectInterval

\* maintainWiFi; portalActive: wm.getConfigPortalActive(), ok: the outcome of
\* wm.autoConnect if this call attempts a reconnect
maintainWiFi(portalActive, ok) ==
  /\ IF wlStatus = "WL_CONNECTED"
     THEN /\ wifiState' =
               IF wifiState.connectionLost
               THEN [wifiState EXCEPT !.connectionLost = FALSE,
                                      !.reconnectFailCount = 0,
                                      !.reconnectInterval =
                                         WIFI_RECONNECT_BASE_INTERVAL]
               ELSE wifiState
          /\ failRun' = 0
          /\ UNCHANGED <<wlStatus, wifiAttempts>>
     ELSE IF ReconnectDue(portalActive)
     THEN /\ wifiAttempts < MaxWifiAttempts
          /\ wifiState' =
               [connectWiFi([wifiState EXCEPT !.connectionLost = TRUE], ok)
                  EXCEPT !.lastReconnectAttempt = now]
          /\ wlStatus' = IF ok THEN "WL_CONNECTED" ELSE wlStatus
          /\ wifiAttempts' = wifiAttempts + 1
          /\ failRun' = IF ok THEN 0 ELSE failRun + 1
     ELSE /\ wifiState' = [wifiState EXCEPT !.connectionLost = TRUE]
          /\ UNCHANGED <<wlStatus, wifiAttempts, failRun>>
  /\ UNCHANGED now
  /\ WifiFrame

\* the access point goes away; it does so only while fewer than
\* MaxDropAttempts reconnects have been attempted
LinkLost ==
  /\ wlStatus = "WL_CONNECTED" /\ wifiAttempts < MaxDropAttempts
  /\ wlStatus' = "WL_DISCONNECTED"
  /\ UNCHANGED <<now, wifiState, wifiAttempts, failRun>>
  /\ WifiFrame

\* the WiFi stack re-associates on its own
LinkBack ==
  /\ wlStatus = "WL_DISCONNECTED"
  /\ wlStatus' = "WL_CONNECTED"
  /\ UNCHANGED <<now, wifiState, wifiAttempts, failRun>>
  /\ WifiFrame

\* time passes while the link is down and no reconnect is due: loop() calls
\* maintainWiFi all the time, so the clock reaches the time the next attempt
\* is due and the attempt is made then
WifiTick ==
  /\ wlStatus = "WL_DISCONNECTED" /\ wifiState.connectionLost
  /\ ~ReconnectDue(FALSE)
  /\ Tick(wifiState.lastReconnectAttempt + wifiState.reconnectInterval - now,
          MaxTimeWifi)
  /\ UNCHANGED <<wifiVars>>
  /\ WifiFrame

NextWifi ==
  \/ WifiTick
  \/ LinkLost
  \/ LinkBack
  \/ \E portalActive \in BOOLEAN, ok \in BOOLEAN : maintainWiFi(portalActive, ok)

SpecWifi == InitWifi /\ [][NextWifi]_vars

(***************************************************************************)
(* Command specification: mqttCallback with payloads around the length     *)
(* limit, the firmware update block of loop(), and read cycles.            *)
(***************************************************************************)
\* variant: a payload of exactly the limit is accepted
PayloadTooLarge_gt(p_length) == p_length > MQTT_CALLBACK_BUFFER_SIZE

\* the length guard of mqttCallback
PayloadTooLarge(p_length) == p_length >= MQTT_CALLBACK_BUFFER_SIZE

\* payload lengths below, at and above the limit
MqttLengths == {20, 1022, 1023, 1024}

\* what deserializeJson and extractAssetFromTopic make of a message: an
\* interval command, a firmware command with a short and with a long URL,
\* a command for an asset the firmware does not know, a payload that does
\* not parse
MqttMessages ==
  {[parses |-> TRUE, asset |-> "interval", value |-> 1, url |-> ""],
   [parses |-> TRUE, asset |-> "interval", value |-> 10, url |-> ""],
   [parses |-> TRUE, asset |-> "firmware", value |-> 0, url |-> "fw.bin"],
   [parses |-> TRUE, asset |-> "firmware", value |-> 0,
    url |-> "https://host/fw.bin"],
   [parses |-> TRUE, asset |-> "unknown", value |-> 0, url |-> ""],
   [parses |-> FALSE, asset |-> "interval", value |-> 0, url |-> ""]}

\* what a call of mqttCallback that returns early leaves alone
DeviceVars ==
  <<now, decVars, alarmVars, sensorData, sensVars, calVars, filtVars,
    attVars, histVars, pubVars, utilVars, cmdVars, wifiVars>>

\* mqttCallback for a payload of p_length bytes that holds message m; the
\* copy writes json[0 .. p_length - 1] and the terminator json[p_length]
mqttCallback(p_length, m) ==
  /\ msgs < MaxMsgs
  /\ msgs' = msgs + 1
  /\ msgLen' = p_length
  /\ IF PayloadTooLarge(p_length)
     THEN UNCHANGED <<jsonTop, DeviceVars>>
     ELSE /\ jsonTop' = p_length
          /\ IF ~m.parses THEN UNCHANGED DeviceVars
             ELSE IF m.asset = "interval" THEN changeInterval(m.value)
             ELSE IF m.asset = "firmware"
             THEN /\ pendingUpdateUrl' =
                       IF Len(m.url) > 10 THEN m.url ELSE pendingUpdateUrl
                  /\ UNCHANGED <<now, decVars, alarmVars, sensorData,
                                 sensVars, calVars, filtVars, attVars,
                                 histVars, pubVars, utilVars, intervalArg,
                                 updates, boots, wifiVars>>
             ELSE UNCHANGED DeviceVars

\* the firmware update block of loop() when performHttpUpdate returns
\* (HTTP_UPDATE_FAILED or HTTP_UPDATE_NO_UPDATES; HTTP_UPDATE_OK restarts
\* the device)
loopFirmwareUpdate ==
  /\ pendingUpdateUrl # ""
  /\ pendingUpdateUrl' = ""
  /\ updates' = updates + 1
  /\ StoreSens(IF pmsSensorOnline THEN sleep(Sens) ELSE Sens)
  /\ UNCHANGED <<wire, pos, avail, ruActive, start, timeout, okLog,
                 runStart, runGap, lateByte, lastConsume, calibration,
                 pmsNoSleep, dataPublishInterval, sensorReadTime, lastCycle,
                 cycles, pmsFailRun, bmeFailRun, sameRun, alarmVars,
                 calVars, filtVars, attVars, histVars, pubVars, utilVars,
                 intervalArg, boots, mqttVars, wifiVars>>

MqttTick ==
  \E d \in SchedTicks :
     /\ ~(WakeDue \/ ReadDue)
     /\ Tick(d, MaxTimeMqtt)
     /\ UNCHANGED <<decVars, alarmVars, sensorData, sensVars, extVars>>

NextMqtt ==
  \/ MqttTick
  \/ \E resp \in SchedResponses : sensorLoop(resp, GoodBME, TRUE)
  \/ \E p_length \in MqttLengths, m \in MqttMessages :
        mqttCallback(p_length, m)
  \/ loopFirmwareUpdate

SpecMqtt == InitFan /\ [][NextMqtt]_vars

(***************************************************************************)
(* Calibration specification: read cycles of healthy sensors interleaved   *)
(* with configuration commands, starting from several EEPROM contents.     *)
(***************************************************************************)
\* EEPROM contents at start-up: never written, saved with factors in range,
\* saved with factors out of range
EepromContents ==
  {BlankSettings, SavedSettings(0, TRUE, 200, 100),
   SavedSettings(0, TRUE, 5, 1001)}

\* payloads of the calibration command
CalDocs ==
  {[pm25 |-> 1001], [pm25 |-> 10, pm10 |-> 1000], [pm10 |-> 9],
   [temp |-> 150], [hum |-> 0]}

\* temperature offsets sent by command or typed into the portal
TempOffsets == {0, 150}

InitCal ==
  /\ now = 0
  /\ wire = <<>>
  /\ pos = 0
  /\ avail = 0
  /\ InitPms
  /\ initAlarms
  /\ InitSensorData
  /\ \E st \in EepromContents : InitSettings(st)
  /\ InitFilter
  /\ InitMisc
  /\ InitSensors
  /\ bmeSensorOnline = TRUE

CalTick ==
  \E d \in SensTicks :
     Tick(d, MaxTimeCal) /\ UNCHANGED <<decVars, alarmVars, sensorData, sensVars,
                                       extVars>>

NextCal ==
  \/ CalTick
  \/ sensorLoop(PMFrame(5, 10, 15), GoodBME, TRUE)
  \/ \E v \in TempOffsets : MqttTemperatureOffset(v)
  \/ \E doc \in CalDocs : MqttCalibration(doc)
  \/ \E off \in TempOffsets : savePortalData(off)

SpecCal == InitCal /\ [][NextCal]_vars

(***************************************************************************)
(* Start-up specification: configuration commands that write the settings  *)
(* and restarts that read them back, starting from several EEPROM          *)
(* contents.                                                               *)
(***************************************************************************)
NextBoot ==
  \/ \E v \in TempOffsets : MqttTemperatureOffset(v)
  \/ \E doc \in CalDocs : MqttCalibration(doc)
  \/ \E off \in TempOffsets : savePortalData(off)
  \/ \E v \in BOOLEAN :
       /\ cmds < MaxCmds
       /\ cmds' = cmds + 1
       /\ MqttAlarmEnable(v)
       /\ UNCHANGED <<decVars, sensVars, filtVars, miscVars>>
  \/ Restart

SpecBoot == InitCal /\ [][NextBoot]_vars

(***************************************************************************)
(* Humidity-correction specification: applyEPAHumidityCorrection called    *)
(* on its own with arguments around the breakpoints of the divisor.        *)
(***************************************************************************)
\* relative humidities in hundredths of a percent: the ends of the range and
\* each breakpoint with its two neighbours
EPAHumidities ==
  {0, 10000} \cup {b + d : b \in {3000, 5000, 7000, 9000}, d \in {-1, 0, 1}}

\* raw PM values
EPAPmValues == {0, 1, 35, 500}

EPAInputs == [pmValue : EPAPmValues, humidity : EPAHumidities]

InitEPA ==
  /\ now = 0
  /\ wire = <<>>
  /\ pos = 0
  /\ avail = 0
  /\ InitPms
  /\ initAlarms
  /\ InitSensorData
  /\ InitSettings(BlankSettings)
  /\ InitFilter
  /\ InitAttempt /\ InitHist /\ InitPublish /\ InitHeatIdle /\ InitNet
  /\ epaIn \in EPAInputs
  /\ epaOut = NoEPACall
  /\ InitSensors
  /\ bmeSensorOnline = TRUE

\* the function is called with the arguments epaIn
CallEPA ==
  /\ epaOut' =
       [applied |-> TRUE, pmValue |-> epaIn.pmValue,
        humidity |-> epaIn.humidity, factor |-> EPAFactor(epaIn.humidity),
        corrected |->
          applyEPAHumidityCorrection(epaIn.pmValue, epaIn.humidity)]
  /\ epaOut' # epaOut
  /\ UNCHANGED <<now, decVars, alarmVars, sensorData, sensVars, calVars,
                 filtVars, attVars, histVars, pubVars, netVars,
                 epaIn, hiIn, hiOut>>

\* the arguments of the next call
NextEPAInput ==
  /\ epaOut.applied
  /\ epaOut.pmValue = epaIn.pmValue /\ epaOut.humidity = epaIn.humidity
  /\ epaIn' \in EPAInputs \ {epaIn}
  /\ UNCHANGED <<now, decVars, alarmVars, sensorData, sensVars, calVars,
                 filtVars, attVars, histVars, pubVars, netVars,
                 epaOut, hiIn, hiOut>>

NextEPA == CallEPA \/ NextEPAInput

SpecEPA == InitEPA /\ [][NextEPA]_vars

(***************************************************************************)
(* Heat-index specification: calculateHeatIndex called on its own with     *)
(* temperatures around the two ends of the transition range.               *)
(***************************************************************************)
\* temperatures in hundredths of a degree: below the transition, its two
\* ends with their neighbours, its middle, and a hot day
HeatTemperatures == {-500, 1999, 2000, 2001, 2335, 2669, 2670, 2671, 3500}

\* relative humidities in hundredths of a percent
HeatHumidities == {0, 3000, 4500, 7000, 10000}

HeatInputs == [temperature : HeatTemperatures, humidity : HeatHumidities]

InitHeat ==
  /\ now = 0
  /\ wire = <<>>
  /\ pos = 0
  /\ avail = 0
  /\ InitPms
  /\ initAlarms
  /\ InitSensorData
  /\ InitSettings(BlankSettings)
  /\ InitFilter
  /\ InitAttempt /\ InitHist /\ InitPublish /\ InitEPAIdle /\ InitNet
  /\ hiIn \in HeatInputs
  /\ hiOut = NoHeatCall
  /\ InitSensors
  /\ bmeSensorOnline = TRUE

\* the function is called with the arguments hiIn
CallHeat ==
  /\ hiOut' =
       [applied |-> TRUE, temperature |-> hiIn.temperature,
        humidity |-> hiIn.humidity,
        value |-> calculateHeatIndex(hiIn.temperature, hiIn.humidity)]
  /\ hiOut' # hiOut
  /\ UNCHANGED <<now, decVars, alarmVars, sensorData, sensVars, calVars,
                 filtVars, attVars, histVars, pubVars, netVars,
                 epaIn, epaOut, hiIn>>

\* the arguments of the next call
NextHeatInput ==
  /\ hiOut.applied
  /\ hiOut.temperature = hiIn.temperature /\ hiOut.humidity = hiIn.humidity
  /\ hiIn' \in HeatInputs \ {hiIn}
  /\ UNCHANGED <<now, decVars, alarmVars, sensorData, sensVars, calVars,
                 filtVars, attVars, histVars, pubVars, netVars,
                 epaIn, epaOut, hiOut>>

NextHeat == CallHeat \/ NextHeatInput

SpecHeat == InitHeat /\ [][NextHeat]_vars

(***************************************************************************)
(* Filter specification: samples pushed to one movingAvg filter.           *)
(***************************************************************************)
\* samples pushed to the filter
FilterSamples == {-3, 7}

InitFilterSpec ==
  /\ now = 0
  /\ wire = <<>>
  /\ pos = 0
  /\ avail = 0
  /\ InitPms
  /\ initAlarms
  /\ InitSensorData
  /\ InitSettings(BlankSettings)
  /\ InitFilter
  /\ InitMisc
  /\ InitSensors
  /\ bmeSensorOnline = TRUE

\* reading(v) on the stand-alone filter
Push(v) ==
  /\ Len(fPushed) < MaxPushes
  /\ LET r == Reading(fWin, v)
     IN fWin' = r.f /\ fOut' = r.out
  /\ fPushed' = Append(fPushed, v)
  /\ UNCHANGED <<now, decVars, alarmVars, sensorData, sensVars, calVars,
                 miscVars>>

NextFilter == \E v \in FilterSamples : Push(v)

SpecFilter == InitFilterSpec /\ [][NextFilter]_vars

(***************************************************************************)
(* Decoder properties.                                                     *)
(***************************************************************************)
\* the successful returns reported for bytes after stream offset q
OkAfter(q) == {i \in DOMAIN okLog : okLog[i].at > q}

\* C1: a well-formed frame fed from the start-of-frame state without a late
\* byte is reported exactly once, on its 32nd byte, and the record returned
\* holds the big-endian words of the frame at their positions.
C1_ValidFrameDecodedOnce ==
  (/\ runStart + 32 <= Len(wire)
   /\ IsValidFrame(FrameAt(runStart))
   /\ ~runGap
   /\ pos >= runStart /\ pos <= runStart + 32)
  => /\ \A i \in OkAfter(runStart) : okLog[i].at = runStart + 32
     /\ pos = runStart + 32 =>
          /\ \E i \in OkAfter(runStart) :
                okLog[i].data = FieldsOf(FrameAt(runStart))
          /\ pmsData = FieldsOf(FrameAt(runStart))

\* C1 witness: the second frame of a stream has been decoded after the first
C1_Witness ==
  /\ pos = 64 /\ runStart = 32 /\ ~runGap
  /\ Len(okLog) = 2 /\ okLog[2].at = 64
  /\ okLog[2].data = FieldsOf(FrameAt(32))
  /\ okLog[2].data.PM_AE_UG_2_5 # okLog[2].data.PM_SP_UG_2_5

\* the last 32 bytes consumed when the stream offset is q carry a matching sum
SumMatchesAt(q) ==
  /\ q >= 32
  /\ SumSeq(SubSeq(wire, q - 31, q - 2)) = makeWord(wire[q - 1], wire[q])

\* C2: success is reported only at the end of 32 bytes whose first 30 sum to
\* the value in the last two; on a mismatch at the last byte of a frame the
\* status stays STATUS_WAIT, the caller's record is untouched and the parser
\* is back in the start-of-frame state.
C2_SuccessOnlyOnMatchingSum ==
  /\ [](\A i \in DOMAIN okLog : SumMatchesAt(okLog[i].at))
  /\ [][(/\ pos' = pos + 1
         /\ _index = 31
         /\ ~FrameTimedOut(PmsObj, now)
         /\ ~SumMatchesAt(pos'))
        => (/\ _status' = STATUS_WAIT
            /\ pmsData' = pmsData
            /\ _index' = 0
            /\ okLog' = okLog)]_vars

\* C2 witness: a complete frame with a wrong sum has been consumed and dropped
C2_Witness ==
  /\ pos = 32 /\ ~SumMatchesAt(32)
  /\ _checksum = makeWord(wire[31], wire[32])
  /\ _calculatedChecksum = SumSeq(SubSeq(wire, 1, 30))
  /\ _index = 0 /\ okLog = <<>> /\ pmsData = ZeroData

\* f is a well-formed frame in which one payload byte was replaced
OnePayloadByteCorrupted(f) ==
  /\ f[1] = 66 /\ f[2] = 77 /\ makeWord(f[3], f[4]) = 28
  /\ LET diff == makeWord(f[31], f[32]) - SumSeq(SubSeq(f, 1, 30))
     IN /\ diff # 0
        /\ \E p \in 5..30 : f[p] + diff \in 0..255

\* C3: a frame with one corrupted payload byte followed at once by a valid
\* frame yields nothing for the corrupted frame and then the valid frame
\* with its fields.
C3_ResyncAfterCorruptFrame ==
  (/\ Len(wire) >= 64
   /\ OnePayloadByteCorrupted(FrameAt(0))
   /\ IsValidFrame(FrameAt(32))
   /\ ~lateByte)
  => /\ \A i \in DOMAIN okLog :
          okLog[i].at = 64 /\ okLog[i].data = FieldsOf(FrameAt(32))
     /\ pos = 64 => Len(okLog) = 1 /\ pmsData = FieldsOf(FrameAt(32))

\* C3 witness: the frame after a payload-corrupted frame has been returned
C3_Witness ==
  /\ OnePayloadByteCorrupted(FrameAt(0)) /\ ~lateByte
  /\ wire[18] # ValidFrame(1)[18] /\ wire[18] # ValidFrame(2)[18]
  /\ pos = 64 /\ Len(okLog) = 1 /\ okLog[1].at = 64

(***************************************************************************)
(* Alarm properties.                                                       *)
(***************************************************************************)
\* PM2.5 or PM10 is strictly above its threshold
Breach ==
  \/ sensorData.pm25 > alarmState.pm25Threshold
  \/ sensorData.pm10 > alarmState.pm10Threshold

\* the evaluator is Triggered and less than the cooldown has elapsed
WithinCooldown ==
  /\ alarmState.triggered
  /\ Sub32(now, alarmState.lastTriggerTime) < alarmState.cooldownMs

\* the step emits exactly one alarm event, stamped with the current time
EmitsOne ==
  /\ Len(alarmEvents') = Len(alarmEvents) + 1
  /\ SubSeq(alarmEvents', 1, Len(alarmEvents)) = alarmEvents
  /\ alarmEvents'[Len(alarmEvents')].time = now

\* C4: enabled and outside a cooldown, an evaluation ends Triggered with the
\* current time as trigger time and exactly one event when PM2.5 or PM10 is
\* strictly above its threshold, and ends Clear with no event otherwise.
C4_EvaluationOutcome ==
  [][(checkAlarms /\ alarmEnabled /\ ~WithinCooldown)
     => IF Breach
        THEN /\ alarmState'.triggered /\ alarmTriggered'
             /\ alarmState'.lastTriggerTime = now
             /\ EmitsOne
        ELSE /\ ~alarmState'.triggered /\ ~alarmTriggered'
             /\ alarmEvents' = alarmEvents]_vars

\* C4 witness: an alarm raised by PM10 alone, at a later time than boot
C4_Witness ==
  /\ alarmState.triggered /\ alarmState.lastTriggerTime = now /\ now > 0
  /\ Len(alarmEvents) = 1
  /\ alarmEvents[1].reason = <<[what |-> "PM10 HIGH", value |-> 46]>>
  /\ sensorData.pm25 = 35

\* C5: Triggered and inside the cooldown, an evaluation changes neither the
\* alarm state nor the trigger time nor the emitted events.
C5_CooldownSuppresses ==
  [][(checkAlarms /\ WithinCooldown)
     => UNCHANGED <<alarmState, alarmTriggered, alarmEvents>>]_vars

\* C5 witness: Triggered, inside the cooldown, with the values back to normal
C5_Witness ==
  /\ alarmState.triggered /\ alarmTriggered
  /\ Sub32(now, alarmState.lastTriggerTime) = 600000
  /\ ~Breach /\ Len(alarmEvents) = 1

\* C6: with the breach still present, an evaluation made when the cooldown
\* has elapsed since the last trigger emits a new event and restarts the
\* cooldown; with the 60-minute cooldown an evaluation 10 minutes after the
\* trigger emits nothing and one 61 minutes after it emits exactly one event.
C6_RetriggerAfterCooldown ==
  [][(checkAlarms /\ alarmEnabled /\ alarmState.triggered /\ Breach)
     => /\ Sub32(now, alarmState.lastTriggerTime) >= alarmState.cooldownMs
           => EmitsOne /\ alarmState'.triggered
              /\ alarmState'.lastTriggerTime = now
        /\ Sub32(now, alarmState.lastTriggerTime) = 600000
           => alarmEvents' = alarmEvents /\ alarmState' = alarmState
        /\ Sub32(now, alarmState.lastTriggerTime) = 3660000
           => EmitsOne]_vars

\* C6 witness: a second event 61 minutes after the first
C6_Witness ==
  /\ Len(alarmEvents) = 2
  /\ alarmEvents[2].time - alarmEvents[1].time = 3660000
  /\ alarmState.triggered /\ alarmState.lastTriggerTime = alarmEvents[2].time

\* C7: two alarm events are never emitted less than the cooldown apart
C7_EventsCooldownApart ==
  \A i \in 1..(Len(alarmEvents) - 1) :
     Sub32(alarmEvents[i + 1].time, alarmEvents[i].time) >= alarmState.cooldownMs

\* C8: while alarms are disabled the alarm state is Clear, and an evaluation
\* made while disabled emits nothing and changes no alarm state.
C8_DisabledStaysClear ==
  /\ [](~alarmEnabled => ~alarmState.triggered /\ ~alarmTriggered)
  /\ [][(checkAlarms /\ ~alarmEnabled)
        => UNCHANGED <<alarmState, alarmTriggered, alarmEvents>>]_vars

\* C8 witness: disabled after an alarm, with a breach present
C8_Witness ==
  /\ ~alarmEnabled /\ Breach /\ Len(alarmEvents) = 1
  /\ ~alarmState.triggered /\ now > alarmEvents[1].time

(***************************************************************************)
(* Properties of the anomaly check and the sensor health (sensors.h).      *)
(***************************************************************************)
\* C9 (as stated): when the three post-filter PM values have been identical
\* for 5 consecutive read cycles the particle sensor's health is Fan-Stuck
\* at the 5th of them (stated here for values that are not all zero); a
\* cycle whose values differ from the preceding cycle's leaves the stuck
\* counter at 0 and the health OK.
C9_FanStuckAtFifthCycle ==
  /\ (cycles > 0 /\ sameRun = 5 /\ PMTriple(sensorData) # <<0, 0, 0>>) =>
       pmsStatus = "FAN_STUCK"
  /\ (cycles > 1 /\ sameRun = 1) => (stuckCounter = 0 /\ pmsStatus = "OK")

\* C10 (as stated): a sensor is marked Offline by its 3rd consecutive failed
\* read, with its filters reset and its driver re-initialized.
C10_OfflineAtThirdFailure ==
  /\ pmsFailRun = 3 =>
       /\ ~pmsSensorOnline
       /\ lastCycle.pmsWentOffline
       /\ lastCycle.pmsFiltersReset /\ lastCycle.pmsReinit
  /\ bmeFailRun = 3 =>
       /\ lastCycle.bmeWentOffline
       /\ lastCycle.bmeFiltersReset /\ lastCycle.bmeReinit

\* C10 (amended): counted from a successful read, or from start-up with the
\* sensor found, a sensor stays online through its first three consecutive
\* failed reads and is marked Offline by the 4th; the read that marks it
\* Offline resets its filters and re-initializes its driver (the
\* environmental sensor is online again at once when the re-initialization
\* finds it), and no earlier failed read of the run marks it Offline; the
\* particle sensor is not marked Offline again by later failed reads.
C10_OfflineAtFourthFailure ==
  /\ pmsFailRun \in 1..3 => (pmsSensorOnline /\ ~lastCycle.pmsWentOffline)
  /\ bmeFailRun \in 1..3 =>
       (bmeSensorOnline /\ bmeStatus = "OK" /\ ~lastCycle.bmeWentOffline)
  /\ pmsFailRun = 4 =>
       /\ lastCycle.pmsWentOffline /\ ~pmsSensorOnline
       /\ lastCycle.pmsFiltersReset
       /\ pm1Avg = <<>> /\ pm25Avg = <<>> /\ pm10Avg = <<>>
       /\ lastCycle.pmsReinit
  /\ bmeFailRun = 4 =>
       /\ lastCycle.bmeWentOffline
       /\ lastCycle.bmeFiltersReset
       /\ tempAvg = <<>> /\ humAvg = <<>> /\ presAvg = <<>>
       /\ lastCycle.bmeReinit
       /\ bmeSensorOnline = lastCycle.beginOk
  /\ lastCycle.pmsWentOffline => pmsFailRun = 4
  /\ (lastCycle.bmeWentOffline /\ bmeFailRun # -1) => bmeFailRun >= 4

\* both sensors have just failed their 4th read in a row and were marked
\* Offline; the environmental sensor was found again by its re-initialization
C10_Witness ==
  /\ pmsFailRun = 4 /\ lastCycle.pmsWentOffline /\ ~pmsSensorOnline
  /\ bmeFailRun = 4 /\ lastCycle.bmeWentOffline /\ bmeSensorOnline

\* the sensor-status value publishSensorData reports
PublishedStatus ==
  IF pmsSensorOnline THEN sensorStatusText ELSE "Sensor Offline"

\* C11 (as stated): a read cycle in which the read of a sensor succeeds while
\* that sensor is Offline or has failures counted ends with the sensor's
\* health OK and with its failure, stuck and zero counters at 0.
C11_RecoveryClearsAll ==
  [][(cycles' = cycles + 1) =>
       /\ (lastCycle'.pmsOk /\ (pmsSensorRetry > 0 \/ ~pmsSensorOnline)) =>
            /\ pmsSensorOnline' /\ pmsStatus' = "OK"
            /\ pmsSensorRetry' = 0
            /\ stuckCounter' = 0 /\ zeroCounter' = 0
       /\ (lastCycle'.bmeOk /\ (bmeSensorRetry > 0 \/ ~bmeSensorOnline)) =>
            /\ bmeSensorOnline' /\ bmeStatus' = "OK"
            /\ bmeSensorRetry' = 0]_vars

\* C12 (as stated): from the read cycle in which a sensor's consecutive
\* failures reach the offline threshold until a read of it succeeds, the
\* sensor's status value is Offline, its online flag is false and the
\* reported status string says offline at the end of every read cycle.
C12_OfflineUntilSuccess ==
  /\ pmsFailRun >= SENSOR_RETRIES_OFFLINE + 1 =>
       /\ pmsStatus = "OFFLINE" /\ ~pmsSensorOnline
       /\ PublishedStatus = "Sensor Offline"
  /\ bmeFailRun >= SENSOR_RETRIES_OFFLINE + 1 =>
       /\ bmeStatus = "OFFLINE" /\ ~bmeSensorOnline

\* C13 (as stated): a reading with a plausible raw temperature and a
\* compensated humidity above 100 % is accepted: 100 is pushed to the
\* humidity filter, the failure counter is not incremented and the
\* environmental sensor's health stays OK.
C13_SaturatedHumidityAccepted ==
  (/\ lastCycle.ran
   /\ lastCycle.bmeIn.tRaw > TEMP_MIN_VALID
   /\ lastCycle.bmeIn.tRaw < TEMP_MAX_VALID
   /\ lastCycle.bmeIn.hum > 10000) =>
     /\ lastCycle.bmeOk
     /\ humAvg # <<>> /\ humAvg[Len(humAvg)] = 10000
     /\ bmeSensorRetry = 0
     /\ bmeStatus = "OK"

\* C14 (as stated): at the end of every read cycle each corrected PM field
\* of the snapshot is the humidity correction of the snapshot's own raw PM
\* field and humidity field.
C14_CorrectedFromSameSnapshot ==
  cycles > 0 =>
    /\ sensorData.pm1_corrected =
         applyEPAHumidityCorrection(sensorData.pm1, sensorData.humidity)
    /\ sensorData.pm25_corrected =
         applyEPAHumidityCorrection(sensorData.pm25, sensorData.humidity)
    /\ sensorData.pm10_corrected =
         applyEPAHumidityCorrection(sensorData.pm10, sensorData.humidity)

(***************************************************************************)
(* Properties of the calibration and of the filters.                       *)
(***************************************************************************)
\* C15 (as stated): no step changes a PM calibration factor used by the
\* pipeline, or a persisted one, to a value outside [0.1, 10.0]; after
\* start-up the factors in use are in range.
C15_OutOfRangeFactorRejected ==
  /\ [](cmds = 0 => /\ isValidCalibrationFactor(calibration.pm25Factor)
                    /\ isValidCalibrationFactor(calibration.pm10Factor))
  /\ [][/\ calibration'.pm25Factor # calibration.pm25Factor =>
            isValidCalibrationFactor(calibration'.pm25Factor)
        /\ calibration'.pm10Factor # calibration.pm10Factor =>
            isValidCalibrationFactor(calibration'.pm10Factor)
        /\ eeprom'.pm25CalFactor # eeprom.pm25CalFactor =>
            isValidCalibrationFactor(eeprom'.pm25CalFactor)
        /\ eeprom'.pm10CalFactor # eeprom.pm10CalFactor =>
            isValidCalibrationFactor(eeprom'.pm10CalFactor)]_vars

\* C17 (as stated): the samples in the temperature and humidity windows
\* were all taken under the temperature offset the pipeline uses now.
C17_WindowUnderOneOffset ==
  /\ Len(offsetOfSample) = Len(tempAvg)
  /\ Len(humAvg) = Len(tempAvg)
  /\ \A i \in DOMAIN offsetOfSample :
        offsetOfSample[i] = calibration.tempOffset

\* m is the integer mean of n samples whose sum is sum (the quotient
\* without its fraction)
IsIntegerMean(m, sum, n) ==
  IF sum >= 0 THEN m * n <= sum /\ sum < (m + 1) * n
  ELSE m * n >= sum /\ sum > (m - 1) * n

\* C16: after k pushes to a filter of window W the value returned by the
\* last push is the integer mean of the first k samples when k <= W and of
\* the W most recent samples when k > W; the first push returns its sample.
C16_SlidingWindowMean ==
  fPushed # <<>> =>
    LET k == Len(fPushed)
        n == IF k <= SENSOR_AVERAGE_SAMPLES THEN k ELSE SENSOR_AVERAGE_SAMPLES
        recent == SubSeq(fPushed, k - n + 1, k)
    IN /\ IsIntegerMean(fOut, SumSeq(recent), n)
       /\ k = 1 => fOut = fPushed[1]

\* the window has slid past its first sample, which differs from the sample
\* that replaced it
C16_Witness ==
  /\ Len(fPushed) = SENSOR_AVERAGE_SAMPLES + 1
  /\ fPushed[1] # fPushed[SENSOR_AVERAGE_SAMPLES + 1]
  /\ Len(fWin) = SENSOR_AVERAGE_SAMPLES

(***************************************************************************)
(* Decoder properties: inter-byte timeout, length check, readUntil.        *)
(***************************************************************************)
\* the step is one iteration of readUntil (one call of PMS::loop)
PollStep == ruActive /\ now' = now /\ avail' <= avail

\* C18: when a partial frame is held and more than 100 ms have passed since
\* the last consumed byte, the next decoder step drops it and handles its
\* byte, if any, from the start-of-frame state; a complete valid frame that
\* arrives after the gap is decoded.  With a gap of 100 ms or less the step
\* keeps the partial frame: without a byte nothing changes, and a payload
\* byte is appended to it.
C18_TimeoutDiscardsPartialFrame ==
  /\ [][(PollStep /\ _index > 0 /\
         Sub32(now, _lastByteTime) > FRAME_TIMEOUT_MS)
        => /\ pos' = pos => _index' = 0
           /\ pos' = pos + 1 =>
                 _index' = (IF wire[pos'] = 66 THEN 1 ELSE 0)
           /\ (pos' = pos + 1 /\ wire[pos'] = 66) =>
                 _calculatedChecksum' = 66]_vars
  /\ [](\A n \in TruncLens :
          (/\ Len(wire) = n + 32
           /\ IsValidFrame(FrameAt(n))
           /\ runStart = n /\ ~runGap /\ pos = n + 32)
          => /\ pmsData = FieldsOf(FrameAt(n))
             /\ okLog # <<>>
             /\ okLog[Len(okLog)] =
                  [at |-> n + 32, data |-> FieldsOf(FrameAt(n))])
  /\ [][(PollStep /\ _index > 0 /\
         Sub32(now, _lastByteTime) <= FRAME_TIMEOUT_MS)
        => /\ pos' = pos => (_index' = _index /\ _payload' = _payload)
           /\ (pos' = pos + 1 /\ _index \in 4..30) =>
                 (/\ _index' = _index + 1
                  /\ _index - 4 < 28 => _payload'[_index - 4] = wire[pos']
                  /\ _index - 4 >= 28 => _payload' = _payload)]_vars

\* C18 witness: a frame was broken off after five bytes, the line stayed
\* quiet for more than 100 ms, and the complete frame that followed has been
\* decoded
C18_Witness ==
  /\ \E n \in TruncLens : Len(wire) = n + 32 /\ runStart = n /\ pos = n + 32
  /\ ~runGap /\ lateByte
  /\ Len(okLog) = 1
  /\ okLog[1].data = FieldsOf(FrameAt(runStart))

\* C19: the step that takes the second length byte of a frame whose
\* big-endian length is not 28 puts the decoder back in the start-of-frame
\* state and reports nothing; a length of 28 lets the frame go on.  Nothing
\* is ever reported for the 32 bytes of a frame with a wrong length.
C19_BadLengthResyncs ==
  /\ [][(/\ PollStep /\ pos' = pos + 1
         /\ _index = 3 /\ ~FrameTimedOut(PmsObj, now))
        => IF makeWord(wire[pos], wire[pos']) # 28
           THEN /\ _index' = 0
                /\ _status' = STATUS_WAIT
                /\ okLog' = okLog
                /\ pmsData' = pmsData
           ELSE _index' = 4]_vars
  /\ []((wire[1] = 66 /\ wire[2] = 77 /\ makeWord(wire[3], wire[4]) # 28)
        => \A i \in DOMAIN okLog : okLog[i].at > 32)

\* C19 witness: the decoder is back at the start after the fourth byte of a
\* frame whose length field is not 28
C19_Witness ==
  /\ wire[1] = 66 /\ wire[2] = 77 /\ makeWord(wire[3], wire[4]) # 28
  /\ pos = 4 /\ _index = 0
  /\ _frameLen = makeWord(wire[3], wire[4])
  /\ _calculatedChecksum = SumSeq(SubSeq(wire, 1, 4))
  /\ okLog = <<>>

\* the step takes the 32nd byte of a well-formed frame parsed from its start
CompletesValidFrame ==
  /\ pos' = pos + 1
  /\ _index = 31 /\ ~FrameTimedOut(PmsObj, now)
  /\ pos' >= 32
  /\ IsValidFrame(SubSeq(wire, pos' - 31, pos'))

\* the modelled clock can reach the deadline of the call in progress
DeadlineReachable ==
  \A d \in LiveTicks : start + timeout + d - 1 <= MaxTimeLive

\* C20: every call of readUntil ends: the iteration that finds the clock
\* advanced by the timeout is the last one, and with a running clock every
\* call returns, on a silent line, on garbage and on frames alike.  The call
\* returns success exactly when one of its iterations completed a
\* checksum-valid frame (that iteration being its last), otherwise failure.
C20_ReadUntilTerminates ==
  /\ [][(PollStep /\ Sub32(now, start) >= timeout) => ~ruActive']_vars
  /\ ((ruActive /\ DeadlineReachable) ~> ~ruActive)
  /\ [](ruActive => _status = STATUS_WAIT)
  /\ [][PollStep =>
          /\ (_status' = STATUS_OK) <=> CompletesValidFrame
          /\ _status' = STATUS_OK =>
                (~ruActive' /\ Len(okLog') = Len(okLog) + 1)
          /\ (_status' # STATUS_OK) => okLog' = okLog]_vars

\* C20 witness: a call on garbage has returned failure at its deadline, all
\* of the garbage consumed
C20_Witness ==
  /\ wire = Garbage /\ pos = Len(wire)
  /\ ~ruActive /\ timeout > 0 /\ now >= start + timeout
  /\ _status = STATUS_WAIT /\ okLog = <<>>

(***************************************************************************)
(* Read-attempt properties.                                                *)
(***************************************************************************)
\* C21: in a read attempt the bytes pending when it began are read and
\* dropped without reaching the decoder, the request is sent only when
\* nothing is pending, and the frame the attempt returns is a well-formed
\* frame whose 32 bytes all arrived after the attempt began and whose fields
\* are those of these 32 bytes.
C21_AttemptUsesFreshBytes ==
  /\ [][(attPhase = "drain" /\ pos' # pos)
        => UNCHANGED <<_index, _frameLen, _checksum, _calculatedChecksum,
                       _payload, _lastByteTime, _status, pmsData, okLog>>]_vars
  /\ [][(ruActive' /\ ~ruActive) => (avail = 0 /\ pos >= attBase)]_vars
  /\ [][Len(okLog') > Len(okLog)
        => /\ pos' - 32 >= attBase
           /\ IsValidFrame(SubSeq(wire, pos' - 31, pos'))
           /\ pmsData' = FieldsOf(SubSeq(wire, pos' - 31, pos'))]_vars

\* C21 witness: the first attempt fed four bytes of a frame to the decoder
\* and failed; the fifth byte was pending when the second attempt began and
\* was dropped by it; the second attempt has returned the complete frame that
\* followed
C21_Witness ==
  /\ wire \in TruncStreams
  /\ attReq = 2 /\ attDrained = 1 /\ attBase = Len(wire) - 32
  /\ ~ruActive /\ Len(okLog) = 1 /\ okLog[1].at = Len(wire)
  /\ pmsData = FieldsOf(FrameAt(attBase))

(***************************************************************************)
(* Checksum width.                                                         *)
(***************************************************************************)
\* the bytes of the frame in progress that enter the sum: the last _index
\* bytes taken, without the two checksum bytes
SummedBytes ==
  SubSeq(wire, pos - _index + 1,
         pos - _index + (IF _index <= 30 THEN _index ELSE 30))

\* C22 as stated: while a frame is being parsed the sum the decoder holds is
\* the sum of the frame bytes taken so far (checksum bytes excluded) modulo
\* 256.
C22_SumWrappedTo8Bits ==
  _index \in 1..31 => _calculatedChecksum = SumSeq(SummedBytes) % 256

\* C22 amended: the sum the decoder holds and compares with the transmitted
\* checksum is the sum of the frame bytes taken so far (checksum bytes
\* excluded) kept in 16 bits; 30 bytes sum to at most 7650, so it is the
\* plain sum.
C22_SumKeptIn16Bits ==
  _index \in 1..31 =>
    /\ _calculatedChecksum = SumSeq(SummedBytes) % 65536
    /\ _calculatedChecksum = SumSeq(SummedBytes)

\* C22 witness: all 30 summed bytes of a frame are in, their sum does not fit
\* 8 bits, and the last checksum byte is awaited
C22_Witness ==
  /\ _index = 31 /\ Len(SummedBytes) = 30
  /\ _calculatedChecksum = SumSeq(SummedBytes)
  /\ _calculatedChecksum >= 256

(***************************************************************************)
(* Zero-data classification and precedence.                                *)
(***************************************************************************)
\* C23 (as stated): the read cycle that is the 5th in a row with all three
\* PM values 0 ends with the health Zero-Data unless the stuck counter has
\* reached its threshold, in which case it ends with Fan-Stuck; the health
\* is not Zero-Data after fewer than 5 such cycles; a cycle with a non-zero
\* value leaves the zero counter at 0.
C23_ZeroDataAtFifthCycle ==
  cycles > 0 =>
    /\ (zeroRun = 5 /\ stuckCounter < FAN_STUCK_THRESHOLD) =>
         (pmsStatus = "ZERO_DATA" /\ sensorStatusText = "Zero Data Error")
    /\ (zeroRun = 5 /\ stuckCounter >= FAN_STUCK_THRESHOLD) =>
         pmsStatus = "FAN_STUCK"
    /\ zeroRun \in 1..4 => pmsStatus # "ZERO_DATA"
    /\ PMTriple(sensorData) # <<0, 0, 0>> => zeroCounter = 0

\* C24: a read cycle that leaves both the stuck counter and the zero counter
\* at or above their thresholds ends with the health Fan-Stuck, in the
\* status and in the status text, not Zero-Data, and so does a publication
\* made with both counters there: it publishes Fan-Stuck.
C24_FanStuckBeforeZeroData ==
  (/\ cycles > 0
   /\ stuckCounter >= FAN_STUCK_THRESHOLD
   /\ zeroCounter >= ZERO_DATA_THRESHOLD)
  => /\ pmsStatus = "FAN_STUCK" /\ sensorStatusText = "Fan Stuck / Error"
     /\ fanWrites = 2 => lastPublished = "Fan Stuck / Error"

\* C24 witness: the sensor, online, has measured zeros cycle after cycle;
\* both counters are at or above their thresholds and Fan-Stuck has been
\* published
C24_Witness ==
  /\ pmsSensorOnline /\ lastCycle.pmsOk /\ PMTriple(sensorData) = <<0, 0, 0>>
  /\ stuckCounter >= FAN_STUCK_THRESHOLD /\ zeroCounter >= ZERO_DATA_THRESHOLD
  /\ pmsStatus = "FAN_STUCK"
  /\ fanWrites = 2 /\ lastPublished = "Fan Stuck / Error"

\* C25: checkFanStatus runs once in a read cycle and not again before the
\* next one, so after every read cycle and until the next the stuck counter
\* is the number of cycles, counted back from the last, whose three PM
\* values equalled those of the cycle before.
C25_AnomalyStateOncePerCycle ==
  cycles > 0 => (fanWrites = 1 /\ stuckCounter = sameRun - 1)

(***************************************************************************)
(* Scheduler claims.                                                       *)
(***************************************************************************)
\* the step is an iteration of loop() in which sensorLoop did something
LoopIteration ==
  cmds' = cmds /\ (sensorReadTime' # sensorReadTime \/ pmsWoken' # pmsWoken)

\* the step lets time pass and nothing else
ClockOnly ==
  /\ now' > now /\ cmds' = cmds
  /\ sensorReadTime' = sensorReadTime /\ pmsWoken' = pmsWoken

\* the iteration sent the wake command ahead of a read
WokeAhead ==
  IF sensorReadTime' # sensorReadTime THEN lastCycle'.woke
  ELSE pmsWoken' /\ ~pmsWoken

\* duty-cycled, online, asleep, and at most 30 s left until the next read
WakeNeeded ==
  /\ ~pmsNoSleep /\ pmsSensorOnline /\ ~pmsWoken
  /\ sensorReadTime + getReadIntervalMillis(dataPublishInterval) - now
       <= PMS_WAKE_BEFORE_SEC * 1000

\* C26: in duty-cycled operation with the particle sensor online and asleep
\* the wake command is sent in the first loop iteration in which at most
\* 30 s remain until the next scheduled read (time does not pass over such
\* an iteration), and an iteration sends the wake command in no other case:
\* not while more than 30 s remain, not while the sensor is awake, not while
\* continuous operation is requested.
C26_WakeAheadWithinMargin ==
  /\ [][ClockOnly => ~WakeNeeded]_vars
  /\ [][LoopIteration => (WokeAhead <=> WakeNeeded)]_vars

\* the sensor slept after a read under a 10 minute interval and was woken
\* when 30 s of the 60 s read interval were left
C26_Witness ==
  /\ dataPublishInterval = 10 /\ ~pmsNoSleep /\ pmsSensorOnline
  /\ cycles >= 1 /\ lastCycle.slept
  /\ pmsWoken /\ pmsTx = <<"wakeUp", "passiveMode">>
  /\ now - sensorReadTime >= 30000
  /\ now - sensorReadTime < 36000

\* the commands tx end with the flush of the serial buffer followed by the
\* sleep command
EndsWithFlushSleep(tx) ==
  /\ Len(tx) >= 2
  /\ tx[Len(tx) - 1] = "flush" /\ tx[Len(tx)] = "sleep"

\* tx holds a sleep command
SendsSleep(tx) == \E i \in DOMAIN tx : tx[i] = "sleep"

\* C27 as stated: every read cycle in which continuous operation is not
\* requested ends with the flush of the serial buffer followed by the sleep
\* command, and no sleep command is sent while continuous operation is
\* requested.
C27_SleepAfterEveryDutyCycle ==
  /\ [][(cycles' = cycles + 1 /\ ~pmsNoSleep)
          => EndsWithFlushSleep(pmsTx')]_vars
  /\ [](pmsNoSleep => ~SendsSleep(pmsTx))

\* C27 amended: a read cycle in which continuous operation is not requested
\* ends with the flush followed by the sleep command if the particle sensor
\* is online at the end of the cycle, and sends no sleep command if it is
\* offline; no sleep command is sent while continuous operation is
\* requested.
C27_SleepAfterDutyCycleIfOnline ==
  /\ [][(cycles' = cycles + 1 /\ ~pmsNoSleep /\ pmsSensorOnline')
          => (EndsWithFlushSleep(pmsTx') /\ ~pmsWoken')]_vars
  /\ [][(cycles' = cycles + 1 /\ ~pmsNoSleep /\ ~pmsSensorOnline')
          => ~SendsSleep(pmsTx')]_vars
  /\ [](pmsNoSleep => ~SendsSleep(pmsTx))

\* a duty-cycled read cycle whose read failed has just put the online
\* sensor to sleep
C27_Witness ==
  /\ ~pmsNoSleep /\ pmsSensorOnline /\ ~pmsWoken
  /\ cycles = 2 /\ now > sensorReadTime /\ lastCycle.slept /\ ~lastCycle.pmsOk
  /\ pmsSensorRetry = 1
  /\ pmsTx = <<"requestRead", "flush", "sleep">>

\* publish intervals of the interval command's accepted range (minutes)
PublishIntervals == 1..60

\* C28: for every publish interval p of 1..60 minutes the read interval is
\* exactly p * 60000 / 10 ms (30000 ms for p = 5); a read cycle runs in the
\* first loop iteration in which that many milliseconds have passed since
\* the previous read (time does not pass over such an iteration), and in no
\* earlier one.
C28_ReadIntervalExact ==
  /\ [](/\ \A p \in PublishIntervals :
             /\ getReadIntervalMillis(p) * SENSOR_AVERAGE_SAMPLES = p * 60000
             /\ getReadIntervalMillis(p) = p * 6000
        /\ getReadIntervalMillis(5) = 30000)
  /\ [][ClockOnly => now - sensorReadTime < dataPublishInterval * 6000]_vars
  /\ [][LoopIteration =>
          /\ (cycles' = cycles + 1)
               <=> (now - sensorReadTime >= dataPublishInterval * 6000)
          /\ cycles' = cycles + 1 => sensorReadTime' = now]_vars

\* the second read cycle ran 60 s after the first, under a 10 minute
\* interval set after the first cycle
C28_Witness ==
  /\ dataPublishInterval = 10 /\ cycles = 2 /\ lastCycle.ran
  /\ sensorReadTime >= 90000 /\ sensorReadTime < 96000
  /\ now > sensorReadTime

(***************************************************************************)
(* Claims about the derived values (utils.h).                              *)
(***************************************************************************)
\* C29: the divisor of the humidity correction is 1.0 for every relative
\* humidity at or below 30 %, never below 1.0, and does not decrease when
\* the humidity rises (across the breakpoints 30, 50, 70 and 90 too), so
\* the corrected PM value never exceeds the raw value.
C29_DivisorMonotoneFromOne ==
  /\ [](epaOut.applied =>
          /\ epaOut.humidity <= 3000 => epaOut.factor = 20000
          /\ epaOut.factor >= 20000
          /\ epaOut.corrected <= epaOut.pmValue)
  /\ [][(epaOut.applied /\ epaOut'.humidity >= epaOut.humidity)
          => epaOut'.factor >= epaOut.factor]_vars

\* a raw value of 35 corrected to 20 at 90.01 % humidity, just above the
\* last breakpoint, where the divisor is 1.7003
C29_Witness ==
  /\ epaOut.applied /\ epaOut.humidity = 9001 /\ epaOut.factor = 34006
  /\ epaOut.pmValue = 35 /\ epaOut.corrected = 20

\* |a|
Abs(a) == IF a >= 0 THEN a ELSE -a

\* C30: the heat index is the temperature below 20, the full regression
\* value at and above 26.7, and between them the blend
\* T * (1 - b) + full * b with b = (T - 20) / (26.7 - 20); at T = 20.0 the
\* blend is T itself, and two calls 0.01 degrees apart at the same humidity
\* differ by no more than a smooth step (0.05 degrees, 500 units of 1e-4),
\* at 20.0 and at 26.7 too.
C30_HeatIndexPiecewiseContinuous ==
  /\ [](hiOut.applied =>
          LET T == hiOut.temperature
              full == fullHeatIndex(T, hiOut.humidity)
          IN /\ T < 2000 => hiOut.value = T * 100
             /\ T >= 2670 => hiOut.value = full
             /\ (T >= 2000 /\ T < 2670) =>
                  Abs(hiOut.value * 670
                        - (T * 100 * (2670 - T) + full * (T - 2000))) < 670
             /\ T = 2000 => hiOut.value = 200000)
  /\ [][(/\ hiOut.applied
          /\ hiOut'.humidity = hiOut.humidity
          /\ Abs(hiOut'.temperature - hiOut.temperature) <= 1)
          => Abs(hiOut'.value - hiOut.value) <= 500]_vars

\* the call at 26.69 degrees and 100 % humidity, one step below the
\* threshold, returned 30.735, the blend of 26.69 and the regression value
C30_Witness ==
  /\ hiOut.applied /\ hiOut.temperature = 2669 /\ hiOut.humidity = 10000
  /\ hiOut.value = 307350
  /\ hiIn = [temperature |-> 2670, humidity |-> 10000]

(***************************************************************************)
(* Claims about buffers and indices.                                       *)
(***************************************************************************)
\* the frame index PMS::loop switches on at clock value now: 0 if the frame
\* in progress has timed out
IndexAtByte ==
  IF _index > 0 /\ Sub32(now, _lastByteTime) > FRAME_TIMEOUT_MS THEN 0
  ELSE _index

\* C40: for every byte stream and timing the frame index stays within
\* 0..31, an index of 4 or more is reached only with a stored frame length
\* of 28, and every byte consumed at an index of 4 or more that is not the
\* last byte of the frame is written to the payload buffer at an index
\* within 0..27 (the buffer keeps its 28 places).
C40_IndexAndPayloadInBounds ==
  /\ [](/\ _index \in 0..31
        /\ _index >= 4 => _frameLen = 28
        /\ DOMAIN _payload = 0..27)
  /\ [][(/\ PollStep /\ pos' = pos + 1
         /\ IndexAtByte >= 4 /\ IndexAtByte # _frameLen + 2 + 1)
        => /\ IndexAtByte - 4 \in 0..27
           /\ _payload' = [_payload EXCEPT ![IndexAtByte - 4] = wire[pos']]
           /\ _index' = IndexAtByte + 1]_vars

\* the decoder has stored the 31st byte of a frame, the high byte of the
\* checksum, in the last but one place of the payload buffer
C40_Witness ==
  /\ _index = 31 /\ _frameLen = 28 /\ pos >= 31
  /\ _payload[26] = wire[pos]
  /\ \A i \in 0..25 : _payload[i] = wire[pos - 26 + i]

(***************************************************************************)
(* Properties of the two triggered flags of the alarm evaluator.           *)
(***************************************************************************)
\* C39: in every reachable state the triggered flag read by the dashboard
\* and the metrics (alarmTriggered) equals the triggered flag the evaluator
\* uses for its cooldown decision (alarmState.triggered).
C39_TriggeredFlagsAgree == [](alarmTriggered = alarmState.triggered)

\* C39 witness: the evaluator is enabled and has raised its second alarm,
\* both flags set
C39_Witness ==
  /\ alarmTriggered /\ alarmState.triggered /\ alarmEnabled
  /\ Len(alarmEvents) = 2

(***************************************************************************)
(* Properties of the interval command.                                     *)
(***************************************************************************)
\* C32: after a remote interval command with any integer value i, the
\* publish interval is i clamped to 1..60 minutes and continuous operation
\* is requested exactly when i is at most 5, in which case the particle
\* sensor is sent a wake command at once.
C32_IntervalClampedAndContinuous ==
  [][cmds' = cmds + 1
     => LET i == intervalArg'
        IN /\ dataPublishInterval' = (IF i < 1 THEN 1 ELSE IF i > 60 THEN 60 ELSE i)
           /\ pmsNoSleep' = (i <= 5)
           /\ i <= 5 => /\ pmsTx' = <<"wakeUp", "passiveMode">>
                        /\ lastPower' = "wakeUp"
                        /\ pmsWoken']_vars

\* C32 witness: a command with value 5 arrived while the sensor slept after
\* a duty-cycled read
C32_Witness ==
  /\ intervalArg = 5 /\ cmds = 1 /\ cycles > 0
  /\ dataPublishInterval = 5 /\ pmsNoSleep
  /\ pmsTx = <<"wakeUp", "passiveMode">> /\ pmsWoken
  /\ lastCycle.slept

\* C38: in every state reachable from start-up through interval commands,
\* whenever continuous operation is not requested the read interval is at
\* least the 30000 ms wake-ahead margin, so the subtraction
\* readInterval - 30000 of the wake condition does not wrap.
C38_DutyCycledIntervalCoversMargin ==
  [](~pmsNoSleep
       => /\ getReadIntervalMillis(dataPublishInterval)
               >= PMS_WAKE_BEFORE_SEC * 1000
          /\ dataPublishInterval \in 5..60)

\* C38 witness: duty-cycled operation at 6 minutes after two commands, the
\* read interval at 36000 ms
C38_Witness ==
  /\ cmds = 2 /\ intervalArg = 6 /\ ~pmsNoSleep
  /\ getReadIntervalMillis(dataPublishInterval) = 36000

(***************************************************************************)
(* Properties of the WiFi reconnect backoff.                               *)
(***************************************************************************)
\* C33 (as stated): across any run of consecutive failed WiFi connection
\* attempts the reconnect interval never decreases and never exceeds
\* 300000 ms (after the k-th consecutive failure it is
\* min(300000, 10000 * 2^min(k, 5))), and it returns to the 10000 ms base
\* only after a successful connection.
C33_BackoffMonotoneAndCapped ==
  /\ [](/\ wifiState.reconnectInterval <= 300000
        /\ failRun > 0
             => wifiState.reconnectInterval =
                  (IF failRun >= 5 THEN 300000
                   ELSE 10000 * ShiftLeft1(failRun)))
  /\ [][(failRun' = failRun + 1 /\ failRun > 0)
          => wifiState'.reconnectInterval >= wifiState.reconnectInterval]_vars
  /\ [][(wifiState'.reconnectInterval = 10000
           /\ wifiState.reconnectInterval # 10000) => failRun' = 0]_vars

(***************************************************************************)
(* Properties of mqttCallback and of the firmware update block.            *)
(***************************************************************************)
\* C31: a remote command whose payload length is at least the callback
\* buffer size (1023 bytes) is ignored and changes no device state, and for
\* every accepted payload every write into the local text buffer
\* (json[1024]), the terminator included, stays inside the buffer.
C31_OversizedIgnoredCopyInBounds ==
  /\ [](jsonTop \in -1..1023)
  /\ [][(msgs' = msgs + 1 /\ msgLen' >= 1023)
          => UNCHANGED <<jsonTop, DeviceVars>>]_vars
  /\ [][(msgs' = msgs + 1 /\ msgLen' < 1023)
          => jsonTop' = msgLen' /\ jsonTop' < MQTT_CALLBACK_BUFFER_SIZE + 1]_vars

\* C31 witness: an interval command of 1022 bytes was accepted, its
\* terminator written at index 1022, and a payload of 1023 bytes was
\* ignored after it
C31_Witness ==
  /\ msgs = 2 /\ msgLen = 1023 /\ jsonTop = 1022
  /\ cmds = 1 /\ intervalArg = 10 /\ dataPublishInterval = 10

\* C34 (as stated): in every reachable state the awake flag kept by the
\* scheduler (pmsWoken) is true exactly when the last power command sent to
\* the particle sensor was a wake command, so a duty-cycled read is never
\* attempted on a sensor whose last power command was sleep (including
\* after a failed remote firmware update).
C34_AwakeFlagMatchesLastPower ==
  /\ [](pmsWoken <=> lastPower = "wakeUp")
  /\ [][(cycles' = cycles + 1 /\ ~pmsNoSleep)
          => (lastPower = "wakeUp" \/ lastCycle'.woke)]_vars

(***************************************************************************)
(* Properties of the persisted settings across a restart.                  *)
(***************************************************************************)
\* a settings record that passes the header test and the CRC test
PassesValidation(st) ==
  st.header = "KLI" /\ st.crc32 = SettingsContent(st)

\* C35 (as stated): after start-up completes with valid persisted settings
\* the alarm evaluator's enabled flag equals the persisted alarm-enable
\* setting, so alarms disabled by remote command stay disabled across a
\* restart.
C35_AlarmEnableSurvivesRestart ==
  [][(boots' = boots + 1 /\ PassesValidation(eeprom))
       => alarmEnabled' = eeprom.alarmEnabled]_vars

\* C36 (as stated): after start-up and after every configuration command
\* the temperature offset added to the raw temperature in a read cycle
\* (calibration.tempOffset) equals the configured temperature offset that is
\* persisted and reported in diagnostics (bmeTemperatureOffset).
C36_AppliedOffsetIsConfiguredOffset ==
  [](calibration.tempOffset = bmeTemperatureOffset)

\* C37 (as stated): every settings record written to persistent storage by
\* saveSettings, updateSetting, updateBoolSetting or updateCalibration, from
\* any prior state including a device whose stored settings were never
\* valid, passes the header and CRC validation of restoreSettings at the
\* next start-up, so the updated value is restored rather than replaced by
\* defaults.
C37_WrittenRecordPassesValidation ==
  [][cmds' = cmds + 1
       => /\ PassesValidation(eeprom')
          /\ restoreSettings(eeprom').tempOffset = eeprom'.tempOffset]_vars

====
